---- MODULE Spec2Model ----
(***************************************************************************)
(* file-mst: a file-backed Merkle Search Tree.                             *)
(*                                                                         *)
(* Node algorithms (src/src/node.rs), the append-only store                *)
(* (src/src/store.rs) and the tree facade (src/src/tree.rs).               *)
(*                                                                         *)
(* Keys and values are small integers (a one-byte key and value type).     *)
(* blake3 is an ideal hash: the digest of a byte string is the string      *)
(* itself, kept as a TLA+ tuple, so two digests are equal exactly when     *)
(* their inputs are equal.  The all-zero digest is the empty tuple.        *)
(* Indices are 0-based in the source and 1-based here: the source's        *)
(* children[idx] is children[idx + 1] below.                               *)
(***************************************************************************)
EXTENDS Integers, Sequences, FiniteSets, TLC

\* ------------------------------------------------------------------ bounds
MaxKey == 3
MaxVal == 2
MaxOps == 4
MaxCommits == 2
MaxIoKey == 2
MaxWrites == 3
MaxIoOps == 5
MaxRecommitOps == 7
MaxFaultOps == 2
MaxFaults == 2
MaxAsyncKey == 1
MaxAsyncVal == 1
MaxHandles == 2
MaxCalls == 3
QueueCap == 2
MaxReaders == 2
MaxGets == 1

Keys == 1..MaxKey
Vals == 1..MaxVal
IoKeys == 1..MaxIoKey

\* ------------------------------------------------------- program constants
PAGE_SIZE == 4096
OUT_LEN == 32

\* --------------------------------------------------------------- variables
VARIABLES
    keyHash,        \* key -> leading bytes of blake3(key), fixed at start
    root,           \* MerkleSearchTree.root
    last_committed, \* MerkleSearchTree.last_committed
    store,          \* the Store behind the handle: what its file reads back
    disk,           \* what of the file is durable
    pc,             \* position of the handle inside commit(); of each
                    \* reader thread inside load_node, with the locks
    model,          \* reference map of the handle (key -> value, 0 = unbound)
    hist,           \* the last completed operation and what preceded it
    root2,          \* a second, independent tree handle
    model2,         \* reference map of the second handle
    hist2,          \* what kinds of operations each handle has run
    adapter         \* AsyncMerkleSearchTree: its channel, worker and replies

vars == <<keyHash, root, last_committed, store, disk, pc, model, hist,
          root2, model2, hist2, adapter>>

\* -------------------------------------------------------------- sequences
\* an insert that ignores the index
InsertAtFront(s, idx, x) == <<x>> \o s

\* Vec::insert(idx, x), 0-based idx
InsertAt(s, idx, x) == SubSeq(s, 1, idx) \o <<x>> \o SubSeq(s, idx + 1, Len(s))

\* a remove that leaves the vector as it is
RemoveNothing(s, idx) == s

\* Vec::remove(idx), 0-based idx
RemoveAt(s, idx) == SubSeq(s, 1, idx) \o SubSeq(s, idx + 2, Len(s))

\* s[idx] = x, 0-based idx
SetAt(s, idx, x) == [s EXCEPT ![idx + 1] = x]

\* ------------------------------------------------------------------ errors
\* io::Result: Err(e) is this record, Ok(x) is x itself
Err == [err |-> TRUE]

IsErr(x) == DOMAIN x = {"err"}

\* ------------------------------------------------------------------- links
ZeroHash == <<>>

Loaded(n) == [tag |-> "Loaded", node |-> n]

Disk(o, h) == [tag |-> "Disk", offset |-> o, hash |-> h]

LinkHash(l) == IF l.tag = "Disk" THEN l.hash ELSE l.node.hash

\* ------------------------------------------------------------------- nodes
MkNode(level, keys, values, children, hash) ==
    [level |-> level, keys |-> keys, values |-> values,
     children |-> children, hash |-> hash]

IsEmptyNode(n) == n.keys = <<>> /\ n.children = <<>>

\* HashInput with the value bytes left out of the hasher
HashInputNoValues(n) ==
    [i \in 1..Len(n.children) |->
        IF i <= Len(n.keys)
        THEN <<LinkHash(n.children[i]), n.keys[i]>>
        ELSE <<LinkHash(n.children[i])>>]

\* the bytes fed to the hasher after level and key count: per child its
\* digest, then (if there is a key at that index) the key and the value
HashInput(n) ==
    [i \in 1..Len(n.children) |->
        IF i <= Len(n.keys)
        THEN <<LinkHash(n.children[i]), n.keys[i], n.values[i]>>
        ELSE <<LinkHash(n.children[i])>>]

\* Rehash with a hasher that also absorbs the digest the node carried
RehashOverStale(n) ==
    IF IsEmptyNode(n)
    THEN [n EXCEPT !.hash = ZeroHash]
    ELSE [n EXCEPT !.hash = <<n.level, Len(n.keys), HashInput(n), n.hash>>]

Rehash(n) ==
    IF IsEmptyNode(n)
    THEN [n EXCEPT !.hash = ZeroHash]
    ELSE [n EXCEPT !.hash = <<n.level, Len(n.keys), HashInput(n)>>]

Empty(level) == Rehash(MkNode(level, <<>>, <<>>, <<>>, ZeroHash))

\* level of a key from the bytes of its digest
RECURSIVE CalcLevelFrom(_, _)
CalcLevelFrom(bytes, i) ==
    IF i > Len(bytes) THEN 0
    ELSE IF bytes[i] = 0 THEN 2 + CalcLevelFrom(bytes, i + 1)
    ELSE IF bytes[i] \div 16 = 0 THEN 1
    ELSE 0

CalcLevel(key) == CalcLevelFrom(keyHash[key], 1)

\* slice::binary_search_by on a strictly ascending key vector: Ok(idx) when
\* keys[idx] = key, Err(idx) with idx the insertion point otherwise
SearchFound(keys, key) == \E i \in 1..Len(keys) : keys[i] = key

SearchIdx(keys, key) == Cardinality({i \in 1..Len(keys) : keys[i] < key})

\* ------------------------------------------------------------ node records
\* DiskNodeRef: the children of a serialized node are (offset, digest) pairs
HasDirtyChildren(n) == \E i \in 1..Len(n.children) : n.children[i].tag = "Loaded"

AsDiskRef(n) ==
    [level |-> n.level, keys |-> n.keys, values |-> n.values,
     children |-> [i \in 1..Len(n.children) |->
                     <<n.children[i].offset, n.children[i].hash>>],
     hash |-> n.hash]

FromDisk(d) ==
    MkNode(d.level, d.keys, d.values,
           [i \in 1..Len(d.children) |-> Disk(d.children[i][1], d.children[i][2])],
           d.hash)

\* Store::load_node: the record at offset, decoded, or an error when the
\* file holds no decodable record there
LoadNode(st, offset) ==
    IF offset \in DOMAIN st.recs /\ ~IsErr(st.recs[offset])
    THEN FromDisk(st.recs[offset])
    ELSE Err

\* match link { Loaded(n) => n.clone(), Disk { offset, .. } => store.load_node(offset)? }
Resolve(st, link) ==
    IF link.tag = "Loaded" THEN link.node ELSE LoadNode(st, link.offset)

\* ------------------------------------------------------------- Node::split
\* a split that leaves everything on the left
SplitNothing(self, split_key, st) == [left |-> self, right |-> Empty(self.level)]

RECURSIVE Split(_, _, _)
Split(self, split_key, st) ==
    IF IsEmptyNode(self)
    THEN [left |-> Empty(self.level), right |-> Empty(self.level)]
    ELSE
    LET idx == SearchIdx(self.keys, split_key)
        left_keys == SubSeq(self.keys, 1, idx)
        left_values == SubSeq(self.values, 1, idx)
        right_start == IF idx < Len(self.keys) /\ self.keys[idx + 1] = split_key
                       THEN idx + 1 ELSE idx
        right_keys == SubSeq(self.keys, right_start + 1, Len(self.keys))
        right_values == SubSeq(self.values, right_start + 1, Len(self.values))
        child == Resolve(st, self.children[idx + 1])
        mid == IF idx < Len(self.children)
               THEN IF IsErr(child) THEN Err ELSE Split(child, split_key, st)
               ELSE [left |-> Empty(0), right |-> Empty(0)]
    IN  IF IsErr(mid) THEN Err
        ELSE
        LET left_children == Append(SubSeq(self.children, 1, idx), Loaded(mid.left))
            right_children ==
                <<Loaded(mid.right)>> \o
                (IF idx + 1 < Len(self.children)
                 THEN SubSeq(self.children, idx + 2, Len(self.children))
                 ELSE <<>>)
        IN  [left  |-> Rehash(MkNode(self.level, left_keys, left_values,
                                     left_children, ZeroHash)),
             right |-> Rehash(MkNode(self.level, right_keys, right_values,
                                     right_children, ZeroHash))]

\* --------------------------------------------------------------- Node::put
RECURSIVE Put(_, _, _, _, _)
Put(self, key, value, key_level, st) ==
    IF key_level > self.level THEN
        LET sp == Split(self, key, st)
        IN  IF IsErr(sp) THEN Err
            ELSE Rehash(MkNode(key_level, <<key>>, <<value>>,
                               <<Loaded(sp.left), Loaded(sp.right)>>, ZeroHash))
    ELSE IF key_level = self.level THEN
        LET idx == SearchIdx(self.keys, key)
        IN  IF SearchFound(self.keys, key)
            THEN Rehash([self EXCEPT !.values = SetAt(self.values, idx, value)])
            ELSE
            LET child_to_split ==
                    IF self.children # <<>>
                    THEN Resolve(st, self.children[idx + 1])
                    ELSE Empty(IF self.level = 0 THEN 0 ELSE self.level - 1)
                sp == IF IsErr(child_to_split) THEN Err
                      ELSE Split(child_to_split, key, st)
            IN  IF IsErr(sp) THEN Err
                ELSE
                LET new_keys == InsertAt(self.keys, idx, key)
                    new_values == InsertAt(self.values, idx, value)
                    new_children ==
                        IF self.children = <<>>
                        THEN <<Loaded(sp.left), Loaded(sp.right)>>
                        ELSE InsertAt(SetAt(self.children, idx, Loaded(sp.left)),
                                      idx + 1, Loaded(sp.right))
                IN  Rehash(MkNode(self.level, new_keys, new_values,
                                  new_children, self.hash))
    ELSE IF IsEmptyNode(self) THEN
        Rehash(MkNode(key_level, <<key>>, <<value>>,
                      <<Loaded(Empty(0)), Loaded(Empty(0))>>, ZeroHash))
    ELSE
        LET idx == SearchIdx(self.keys, key)
        IN  IF SearchFound(self.keys, key)
            THEN Rehash([self EXCEPT !.values = SetAt(self.values, idx, value)])
            ELSE
            LET child_node == Resolve(st, self.children[idx + 1])
                new_child == IF IsErr(child_node) THEN Err
                             ELSE Put(child_node, key, value, key_level, st)
            IN  IF IsErr(new_child) THEN Err
                ELSE Rehash([self EXCEPT
                                !.children = SetAt(self.children, idx, Loaded(new_child))])

\* ------------------------------------------------------------- Node::merge
\* a merge that returns its left side
MergeKeepsLeft(left, right, st) == left

RECURSIVE Merge(_, _, _)
Merge(left, right, st) ==
    LET left_node == Resolve(st, left)
        right_node == Resolve(st, right)
    IN
    IF IsErr(left_node) \/ IsErr(right_node) THEN Err
    ELSE IF IsEmptyNode(left_node) THEN Loaded(right_node)
    ELSE IF IsEmptyNode(right_node) THEN Loaded(left_node)
    ELSE IF left_node.level > right_node.level THEN
        LET last_idx == Len(left_node.children) - 1
            last_child == left_node.children[last_idx + 1]
            merged == Merge(last_child, right, st)
        IN  IF IsErr(merged) THEN Err
            ELSE Loaded(Rehash([left_node EXCEPT
                    !.children = Append(RemoveAt(left_node.children, last_idx), merged)]))
    ELSE IF right_node.level > left_node.level THEN
        LET first_child == right_node.children[1]
            merged == Merge(left, first_child, st)
        IN  IF IsErr(merged) THEN Err
            ELSE Loaded(Rehash([right_node EXCEPT
                    !.children = InsertAt(RemoveAt(right_node.children, 0), 0, merged)]))
    ELSE
        LET left_boundary_child == left_node.children[Len(left_node.children)]
            right_boundary_child == right_node.children[1]
            merged_boundary == Merge(left_boundary_child, right_boundary_child, st)
        IN  IF IsErr(merged_boundary) THEN Err
            ELSE Loaded(Rehash(MkNode(
                    left_node.level,
                    left_node.keys \o right_node.keys,
                    left_node.values \o right_node.values,
                    Append(SubSeq(left_node.children, 1, Len(left_node.children) - 1),
                           merged_boundary)
                        \o RemoveAt(right_node.children, 0),
                    left_node.hash)))

\* ------------------------------------------------------------ Node::delete
RECURSIVE Delete(_, _, _)
Delete(self, key, st) ==
    LET idx == SearchIdx(self.keys, key)
    IN
    IF SearchFound(self.keys, key) THEN
        LET left_child == self.children[idx + 1]
            right_child == self.children[idx + 2]
            merged_child == Merge(left_child, right_child, st)
        IN  IF IsErr(merged_child) THEN Err
            ELSE [node |-> Rehash(MkNode(
                              self.level,
                              RemoveAt(self.keys, idx),
                              RemoveAt(self.values, idx),
                              InsertAt(RemoveAt(RemoveAt(self.children, idx), idx),
                                       idx, merged_child),
                              self.hash)),
                  deleted |-> TRUE]
    ELSE IF self.children = <<>> THEN [node |-> self, deleted |-> FALSE]
    ELSE
        LET child_node == Resolve(st, self.children[idx + 1])
            r == IF IsErr(child_node) THEN Err ELSE Delete(child_node, key, st)
        IN  IF IsErr(r) THEN Err
            ELSE IF ~r.deleted THEN [node |-> self, deleted |-> FALSE]
            ELSE [node |-> Rehash([self EXCEPT
                              !.children = SetAt(self.children, idx, Loaded(r.node))]),
                  deleted |-> TRUE]

\* --------------------------------------------------- Node::get / contains
None == [some |-> FALSE, val |-> 0]

Some(v) == [some |-> TRUE, val |-> v]

RECURSIVE Get(_, _, _)
Get(self, key, st) ==
    LET idx == SearchIdx(self.keys, key)
    IN  IF SearchFound(self.keys, key) THEN Some(self.values[idx + 1])
        ELSE IF self.children = <<>> THEN None
        ELSE LET child == Resolve(st, self.children[idx + 1])
             IN  IF IsErr(child) THEN Err ELSE Get(child, key, st)

RECURSIVE Contains(_, _, _)
Contains(self, key, st) ==
    LET idx == SearchIdx(self.keys, key)
    IN  IF SearchFound(self.keys, key) THEN [ok |-> TRUE]
        ELSE IF self.children = <<>> THEN [ok |-> FALSE]
        ELSE LET child == Resolve(st, self.children[idx + 1])
             IN  IF IsErr(child) THEN Err ELSE Contains(child, key, st)

\* ------------------------------------------------------------------- store
\* A store is what reads of its file return, and how far each write got:
\*   recs  offset -> node record, every record written so far; Err where
\*         the bytes at the offset no longer decode as a record
\*   eof   the length of the file
\*   meta  the (root_offset, root_hash) fields last written at byte 0
\*   buf   the writes still in the BufWriter (a record by its offset,
\*         the metadata fields by META)
\*   os    the writes handed to the OS and not yet synced
\*   fmeta the (root_offset, root_hash) fields the file itself holds
\*   path  the name of the file: 0 for the anonymous file of
\*         new_temporary(), 1, 2, ... for paths
\*   fail  which I/O call on the file fails: the fail-th from now when
\*         fail >= 1, none otherwise
META == 0 - 1

NoRecs == [o \in {} |-> Err]

NoMeta == <<0, ZeroHash>>

\* postcard: a u32/u64/usize is a varint, a blake3 Hash is its 32 bytes,
\* a one-byte key or value is one byte
VarintLen(x) ==
    IF x < 128 THEN 1
    ELSE IF x < 16384 THEN 2
    ELSE IF x < 2097152 THEN 3
    ELSE 4

RECURSIVE ChildrenLen(_, _)
ChildrenLen(children, i) ==
    IF i > Len(children) THEN 0
    ELSE VarintLen(children[i][1]) + OUT_LEN + ChildrenLen(children, i + 1)

\* data.len() for a DiskNodeRef
DataLen(d) ==
    VarintLen(d.level)
    + VarintLen(Len(d.keys)) + Len(d.keys)
    + VarintLen(Len(d.values)) + Len(d.values)
    + VarintLen(Len(d.children)) + ChildrenLen(d.children, 1)
    + OUT_LEN

\* write_node without the padding
WriteNodeAtEnd(current_pos, node_total_len) == current_pos

\* Store::write_node for a node without Loaded children: seek(End) drains
\* the BufWriter, the page rule pads, the record goes into the BufWriter
WriteNodeAt(current_pos, node_total_len) ==
    IF node_total_len <= PAGE_SIZE
       /\ node_total_len > PAGE_SIZE - (current_pos % PAGE_SIZE)
    THEN current_pos + (PAGE_SIZE - (current_pos % PAGE_SIZE))
    ELSE current_pos

\* one I/O call on the file: whether it fails, and the store after it
Fails(st) == st.fail = 1

Tick(st) == [st EXCEPT !.fail = IF st.fail >= 1 THEN st.fail - 1 ELSE 0]

\* BufWriter::flush_buf that succeeds: the buffered writes reach the file
FlushBuf(st) ==
    [st EXCEPT !.os = st.os \cup st.buf,
               !.buf = {},
               !.fmeta = IF META \in st.buf THEN st.meta ELSE st.fmeta]

\* BufWriter::flush_buf, one write call when the buffer holds anything; an
\* error leaves the buffer as it was
TryFlushBuf(st) ==
    IF st.buf = {} THEN [st |-> st, ok |-> TRUE]
    ELSE IF Fails(st) THEN [st |-> Tick(st), ok |-> FALSE]
    ELSE [st |-> FlushBuf(Tick(st)), ok |-> TRUE]

\* the seek call of the file, once flush_buf returned f
SeekFile(f) ==
    IF ~f.ok THEN f ELSE [st |-> Tick(f.st), ok |-> ~Fails(f.st)]

\* BufWriter::seek: flush_buf()?, then the seek call of the file
Seek(st) == SeekFile(TryFlushBuf(st))

\* Store::write_node, the two write_all calls: the length and the data go
\* into the BufWriter for start_offset
WriteNodeData(sk, disk_node, start_offset, node_total_len) ==
    IF ~sk.ok THEN [st |-> sk.st, offset |-> 0, ok |-> FALSE]
    ELSE [st |-> [sk.st EXCEPT !.recs = (start_offset :> disk_node) @@ sk.st.recs,
                               !.eof = start_offset + node_total_len,
                               !.buf = {start_offset}],
          offset |-> start_offset,
          ok |-> TRUE]

\* Store::write_node from the seek on: the record goes to the end of the
\* file, after padding when it would cross a page
WriteNodeAfterSeek(sk, disk_node, node_total_len) ==
    WriteNodeData(sk, disk_node, WriteNodeAt(sk.st.eof, node_total_len),
                  node_total_len)

\* Store::write_node once the node is encoded: seek(End(0)) drains the
\* BufWriter
WriteNodeEncoded(st, disk_node) ==
    WriteNodeAfterSeek(Seek(st), disk_node, DataLen(disk_node) + 4)

\* Store::write_node
WriteNode(st, node) == WriteNodeEncoded(st, AsDiskRef(node))

\* what load_node(0) decodes once the 40 metadata bytes lie over a record
\* that started at offset 0: the length prefix is the low half of
\* root_offset, the payload starts with the four zero bytes of its high
\* half (level 0, no keys, no values, no children) and goes on with the
\* 32 bytes of root_hash; a root_offset of 0 is a length of 0, which
\* does not decode
MetadataAsRecord(root_offset, root_hash) ==
    IF root_offset = 0 THEN Err
    ELSE [level |-> 0, keys |-> <<>>, values |-> <<>>, children |-> <<>>,
          hash |-> root_hash]

\* the bytes [0, 40) after write_metadata, as load_node reads them
OverwriteRecordZero(recs, root_offset, root_hash) ==
    IF 0 \in DOMAIN recs
    THEN [recs EXCEPT ![0] = MetadataAsRecord(root_offset, root_hash)]
    ELSE recs

\* Store::write_metadata from the seek on
WriteMetadataAfterSeek(sk, root_offset, root_hash) ==
    IF ~sk.ok THEN sk
    ELSE [st |-> [sk.st EXCEPT
                    !.meta = <<root_offset, root_hash>>,
                    !.recs = OverwriteRecordZero(sk.st.recs, root_offset,
                                                 root_hash),
                    !.buf = {META}],
          ok |-> TRUE]

\* write_metadata that writes the offset field only
WriteMetadataOffsetOnly(st, root_offset, root_hash) ==
    WriteMetadataAfterSeek(Seek(st), root_offset, st.meta[2])

\* Store::write_metadata: seek(0) drains the BufWriter, the two fields go
\* into the BufWriter
WriteMetadata(st, root_offset, root_hash) ==
    WriteMetadataAfterSeek(Seek(st), root_offset, root_hash)

\* Store::read_metadata
ReadMetadata(st) == IF st.meta[1] = 0 THEN <<>> ELSE st.meta

\* sync_all() of Store::flush: every write the OS holds becomes durable
SyncAll(st) == [st EXCEPT !.os = {}]

\* sync_all() of Store::flush, once writer.flush() returned f
StoreFlushSync(f) ==
    IF ~f.ok THEN f
    ELSE IF Fails(f.st) THEN [st |-> Tick(f.st), ok |-> FALSE]
    ELSE [st |-> SyncAll(Tick(f.st)), ok |-> TRUE]

\* Store::flush: writer.flush()?, then sync_all()
StoreFlush(st) == StoreFlushSync(TryFlushBuf(st))

Durable(st, d) ==
    [recs |-> d.recs \cup (st.os \ {META}),
     meta |-> IF META \in st.os THEN st.meta ELSE d.meta]

\* Store::open on a file that is empty or was written by this program
StoreOpen(file) ==
    [recs |-> file.recs, eof |-> file.eof, meta |-> file.meta, buf |-> {},
     os |-> {}, fmeta |-> file.meta, path |-> file.path, fail |-> 0]

\* -------------------------------------------------------------------- tree
\* MerkleSearchTree::flush_recursive; the store is threaded through the
\* writes.  Result: the store after the writes and the (offset, hash) pair.
RECURSIVE FlushRecursive(_, _)
RECURSIVE FlushChildren(_, _, _)
\* what flush_recursive and copy_recursive return for the node written
Written(w, hash) ==
    [st |-> w.st, offset |-> w.offset, hash |-> hash, ok |-> w.ok]

\* the ? on a child that failed
NotWritten(st) == [st |-> st, offset |-> 0, hash |-> ZeroHash, ok |-> FALSE]

\* links that are made before the child is written: they name the end
\* of the file
LinkedAhead(c, rest) ==
    [st |-> rest.st,
     links |-> <<Disk(rest.st.eof, c.hash)>> \o rest.links,
     ok |-> rest.ok]

\* the links collected for the children: this child's, then the rest
Linked(c, rest) ==
    [st |-> rest.st,
     links |-> <<Disk(c.offset, c.hash)>> \o rest.links,
     ok |-> rest.ok]

\* flush_recursive, the loop over the children after child i returned c
FlushNext(children, i, c) ==
    IF ~c.ok THEN [st |-> c.st, links |-> <<>>, ok |-> FALSE]
    ELSE Linked(c, FlushChildren(c.st, children, i + 1))

\* flush_recursive on a node with Loaded children, once they are flushed
FlushParent(node, fc) ==
    IF ~fc.ok THEN NotWritten(fc.st)
    ELSE Written(WriteNode(fc.st, [node EXCEPT !.children = fc.links]),
                 node.hash)

FlushChildren(st, children, i) ==
    IF i > Len(children) THEN [st |-> st, links |-> <<>>, ok |-> TRUE]
    ELSE FlushNext(children, i, FlushRecursive(st, children[i]))

FlushRecursive(st, link) ==
    IF link.tag = "Disk"
    THEN [st |-> st, offset |-> link.offset, hash |-> link.hash, ok |-> TRUE]
    ELSE IF ~HasDirtyChildren(link.node)
    THEN Written(WriteNode(st, link.node), link.node.hash)
    ELSE FlushParent(link.node, FlushChildren(st, link.node.children, 1))

RootHash(r) == LinkHash(r)

\* insert that puts every key at the level of the root
TreeInsertAtRootLevel(r, st, key, value) ==
    LET root_node == Resolve(st, r)
        new_root_node == IF IsErr(root_node) THEN Err
                         ELSE Put(root_node, key, value, root_node.level, st)
    IN  IF IsErr(new_root_node) THEN Err ELSE Loaded(new_root_node)

\* MerkleSearchTree::insert: the new root link, or Err with the root kept
TreeInsert(r, st, key, value) ==
    LET root_node == Resolve(st, r)
        new_root_node == IF IsErr(root_node) THEN Err
                         ELSE Put(root_node, key, value, CalcLevel(key), st)
    IN  IF IsErr(new_root_node) THEN Err ELSE Loaded(new_root_node)

\* remove whose root collapse installs an empty root instead of the child
TreeRemoveDropsChild(r, st, key) ==
    LET root_node == Resolve(st, r)
        d == IF IsErr(root_node) THEN Err ELSE Delete(root_node, key, st)
    IN  IF IsErr(d) THEN Err
        ELSE IF ~d.deleted THEN r
        ELSE IF d.node.keys = <<>> /\ d.node.children # <<>>
        THEN Loaded(Empty(0))
        ELSE Loaded(d.node)

\* a remove that stores the node it looked at when it deleted nothing
TreeRemoveStoresRoot(r, st, key) ==
    LET root_node == Resolve(st, r)
        d == IF IsErr(root_node) THEN Err ELSE Delete(root_node, key, st)
    IN  IF IsErr(d) THEN Err
        ELSE IF d.node.keys = <<>> /\ d.node.children # <<>>
        THEN d.node.children[1]
        ELSE Loaded(d.node)

\* MerkleSearchTree::remove
TreeRemove(r, st, key) ==
    LET root_node == Resolve(st, r)
        d == IF IsErr(root_node) THEN Err ELSE Delete(root_node, key, st)
    IN  IF IsErr(d) THEN Err
        ELSE IF ~d.deleted THEN r
        ELSE IF d.node.keys = <<>> /\ d.node.children # <<>>
        THEN d.node.children[1]
        ELSE Loaded(d.node)

\* MerkleSearchTree::get, as the bound value or 0 for None, -1 for Err
TreeGet(r, st, key) ==
    LET root_node == Resolve(st, r)
        g == IF IsErr(root_node) THEN Err ELSE Get(root_node, key, st)
    IN  IF IsErr(g) THEN 0 - 1 ELSE IF g.some THEN g.val ELSE 0

\* MerkleSearchTree::contains, as 1 / 0, -1 for Err
TreeContains(r, st, key) ==
    LET root_node == Resolve(st, r)
        c == IF IsErr(root_node) THEN Err ELSE Contains(root_node, key, st)
    IN  IF IsErr(c) THEN 0 - 1 ELSE IF c.ok THEN 1 ELSE 0

\* MerkleSearchTree::open: the handle's root and last_committed
TreeOpen(st) ==
    LET m == ReadMetadata(st)
    IN  IF m # <<>>
        THEN [root |-> Disk(m[1], m[2]), last_committed |-> m]
        ELSE [root |-> Loaded(Empty(0)), last_committed |-> <<>>]

\* commit() returning Err
CommitErr(r, lc, st, phase) ==
    [ok |-> FALSE, root |-> r, last_committed |-> lc, st |-> st,
     ret |-> <<>>, phase |-> phase]

\* commit() after store.flush(): the root becomes the committed link
CommitInstall(r, lc, fr, fl) ==
    IF ~fl.ok THEN CommitErr(r, lc, fl.st, 2)
    ELSE [ok |-> TRUE, root |-> Disk(fr.offset, fr.hash),
          last_committed |-> <<fr.offset, fr.hash>>, st |-> fl.st,
          ret |-> <<fr.offset, fr.hash>>, phase |-> 2]

\* commit() after write_metadata
CommitPublish(r, lc, fr, wm) ==
    IF ~wm.ok THEN CommitErr(r, lc, wm.st, 2)
    ELSE CommitInstall(r, lc, fr, StoreFlush(wm.st))

\* commit() after flush_recursive: the early return when the pair is the
\* one committed last
CommitFlushed(r, lc, fr) ==
    IF ~fr.ok THEN CommitErr(r, lc, fr.st, 1)
    ELSE IF lc = <<fr.offset, fr.hash>>
    THEN [ok |-> TRUE, root |-> r, last_committed |-> lc, st |-> fr.st,
          ret |-> <<fr.offset, fr.hash>>, phase |-> 0]
    ELSE CommitPublish(r, lc, fr, WriteMetadata(fr.st, fr.offset, fr.hash))

\* commit without the comparison with last_committed
TreeCommitAlwaysPublishes(r, lc, st) ==
    LET fr == FlushRecursive(st, r)
    IN  IF ~fr.ok THEN CommitErr(r, lc, fr.st, 1)
        ELSE CommitPublish(r, lc, fr, WriteMetadata(fr.st, fr.offset, fr.hash))

\* commit that installs the new root link before the metadata is written
\* and flushed
TreeCommitRootFirst(r, lc, st) ==
    LET fr == FlushRecursive(st, r)
        c == CommitFlushed(r, lc, fr)
    IN  IF c.phase = 2 THEN [c EXCEPT !.root = Disk(fr.offset, fr.hash)] ELSE c

\* MerkleSearchTree::commit, from call to return.  ok: Ok or Err; ret: the
\* pair returned; phase: 1 when flush_recursive failed, 0 when the early
\* return was taken, 2 otherwise
TreeCommit(r, lc, st) == CommitFlushed(r, lc, FlushRecursive(st, r))

\* MerkleSearchTree::copy_recursive: nodes are read through the old store
\* and written to the new one, children first
RECURSIVE CopyRecursive(_, _, _)
RECURSIVE CopyChildren(_, _, _, _)
\* copy_recursive, the loop over the children after child i returned c
CopyNext(old, children, i, c) ==
    IF ~c.ok THEN [st |-> c.st, links |-> <<>>, ok |-> FALSE]
    ELSE Linked(c, CopyChildren(old, c.st, children, i + 1))

\* copy_recursive once the children are copied: the node is written with
\* their new offsets
CopyParent(node, cc) ==
    IF ~cc.ok THEN NotWritten(cc.st)
    ELSE Written(WriteNode(cc.st, [node EXCEPT !.children = cc.links]),
                 node.hash)

\* copy_recursive once the link is resolved against the old store
CopyNode(old, new, node) ==
    IF IsErr(node) THEN NotWritten(new)
    ELSE CopyParent(node, CopyChildren(old, new, node.children, 1))

\* copy_recursive that writes every node once before and once after its
\* children are copied
CopyRecursiveWritesTwice(old, new, link) ==
    LET node == Resolve(old, link)
        first == WriteNode(new, [node EXCEPT !.children = <<>>])
    IN  IF IsErr(node) THEN NotWritten(new)
        ELSE IF ~first.ok THEN NotWritten(first.st)
        ELSE CopyParent(node, CopyChildren(old, first.st, node.children, 1))

CopyChildren(old, new, children, i) ==
    IF i > Len(children) THEN [st |-> new, links |-> <<>>, ok |-> TRUE]
    ELSE CopyNext(old, children, i, CopyRecursive(old, new, children[i]))

CopyRecursive(old, new, link) == CopyNode(old, new, Resolve(old, link))

\* the store compact() starts from: the file at new_path created or
\* truncated, then set to one page of zero bytes
NewStore(new_path) ==
    StoreOpen([recs |-> NoRecs, eof |-> PAGE_SIZE, meta |-> NoMeta,
               path |-> new_path])

\* compact() returning Err: the tree keeps its root and its store
CompactErr(r, old, created) ==
    [ok |-> FALSE, root |-> r, st |-> old, file |-> created]

\* compact() after new_store.flush(): the tree switches to the new store
CompactSwitch(r, old, created, cr, fl) ==
    IF ~fl.ok THEN CompactErr(r, old, created)
    ELSE [ok |-> TRUE, root |-> Disk(cr.offset, cr.hash), st |-> fl.st,
          file |-> fl.st]

\* compact() after write_metadata on the new store
CompactPublish(r, old, created, cr, wm) ==
    IF ~wm.ok THEN CompactErr(r, old, created)
    ELSE CompactSwitch(r, old, created, cr, StoreFlush(wm.st))

\* compact() after copy_recursive
CompactCopied(r, old, created, cr) ==
    IF ~cr.ok THEN CompactErr(r, old, created)
    ELSE CompactPublish(r, old, created, cr,
                        WriteMetadata(cr.st, cr.offset, cr.hash))

\* compact() once the new file is created (failed: its creation failed)
CompactInto(r, old, failed, created) ==
    IF failed THEN CompactErr(r, old, created)
    ELSE CompactCopied(r, old, created, CopyRecursive(old, created, r))

\* compact that switches to the new store and keeps the old root link
TreeCompactKeepsRoot(r, old, new_path, fail) ==
    [CompactInto(r, old, fail = 1, Tick([NewStore(new_path) EXCEPT !.fail = fail]))
        EXCEPT !.root = r]

\* compact that flushes the new store without writing its metadata
TreeCompactNoMetadata(r, old, new_path, fail) ==
    LET created == Tick([NewStore(new_path) EXCEPT !.fail = fail])
        cr == CopyRecursive(old, created, r)
    IN  IF fail = 1 \/ ~cr.ok THEN CompactErr(r, old, created)
        ELSE CompactSwitch(r, old, created, cr, StoreFlush(cr.st))

\* MerkleSearchTree::compact, from call to return.  fail is the I/O call
\* on the new file that fails (0: none); creating the file is the first.
\* st is the store the tree holds afterwards, file the new file.
TreeCompact(r, old, new_path, fail) ==
    CompactInto(r, old, fail = 1, Tick([NewStore(new_path) EXCEPT !.fail = fail]))

\* ------------------------------------------------------------ initial state
\* leading digest bytes a key may have: levels 0, 1 and 2
HashPrefixes == {<<16>>, <<5>>, <<0, 16>>}

\* a file just created by Store::open: set_len(PAGE_SIZE), all zero
FreshFile == [recs |-> NoRecs, eof |-> PAGE_SIZE, meta |-> NoMeta, path |-> 1]

\* the store of new_temporary(): an empty file
TempStore == StoreOpen([recs |-> NoRecs, eof |-> 0, meta |-> NoMeta, path |-> 0])

NoModel == [k \in Keys |-> 0]

Idle == [at |-> "idle", offset |-> 0, hash |-> ZeroHash]

\* no AsyncMerkleSearchTree was made from the tree
NoAdapter == [cmds |-> <<>>, queue |-> <<>>, running |-> {}, executed |-> <<>>,
              ret |-> <<>>, reply |-> <<>>, busy |-> 0, alive |-> TRUE,
              broken |-> 0, handles |-> 1..MaxHandles, panicked |-> FALSE,
              pending |-> 0]

\* nothing has run on the handle yet
NoHist(st) ==
    [n |-> 0, op |-> "open", key |-> 0, val |-> 0, preHash |-> ZeroHash,
     preVal |-> 0, preModel |-> NoModel, fresh |-> TRUE, commits |-> 0,
     chash |-> ZeroHash, cmodel |-> NoModel,
     preOp |-> "open", preRoot |-> Loaded(Empty(0)), preStore |-> st,
     ret |-> <<>>, preRet |-> <<>>, faults |-> 0, faulty |-> FALSE,
     max |-> MaxIoOps]

Init ==
    /\ keyHash \in [Keys -> HashPrefixes]
    /\ store = StoreOpen(FreshFile)
    /\ root = TreeOpen(StoreOpen(FreshFile)).root
    /\ last_committed = TreeOpen(StoreOpen(FreshFile)).last_committed
    /\ disk = [recs |-> {}, meta |-> NoMeta]
    /\ pc = Idle
    /\ model = NoModel
    /\ hist = NoHist(StoreOpen(FreshFile))
    /\ root2 = Loaded(Empty(0))
    /\ model2 = NoModel
    /\ hist2 = [n |-> 0, fresh |-> TRUE]
    /\ adapter = NoAdapter

Done(op, key, val, isFresh) ==
    [hist EXCEPT !.n = hist.n + 1, !.op = op, !.key = key, !.val = val,
                 !.preHash = RootHash(root),
                 !.preVal = IF key \in Keys THEN model[key] ELSE 0,
                 !.preModel = model,
                 !.fresh = hist.fresh /\ isFresh]

\* ------------------------------------------------------------------ actions
\* tree.insert(key, value)
Insert(key, value) ==
    /\ pc.at = "idle"
    /\ hist.n < MaxOps
    /\ LET r == TreeInsert(root, store, key, value)
       IN  IF IsErr(r)
           THEN /\ hist' = Done("insert_err", key, value, FALSE)
                /\ UNCHANGED <<root, model>>
           ELSE /\ root' = r
                /\ model' = [model EXCEPT ![key] = value]
                /\ hist' = Done("insert", key, value, model[key] = 0)
    /\ UNCHANGED <<keyHash, last_committed, store, disk, pc, root2, model2, hist2, adapter>>

\* tree.remove(key)
Remove(key) ==
    /\ pc.at = "idle"
    /\ hist.n < MaxOps
    /\ LET r == TreeRemove(root, store, key)
       IN  IF IsErr(r)
           THEN /\ hist' = Done("remove_err", key, 0, FALSE)
                /\ UNCHANGED <<root, model>>
           ELSE /\ root' = r
                /\ model' = [model EXCEPT ![key] = 0]
                /\ hist' = Done("remove", key, 0, FALSE)
    /\ UNCHANGED <<keyHash, last_committed, store, disk, pc, root2, model2, hist2, adapter>>

\* tree.commit(), from call to return
Commit ==
    /\ pc.at = "idle"
    /\ hist.n < MaxOps
    /\ hist.commits < MaxCommits
    /\ LET fr == FlushRecursive(store, root)
       IN  IF last_committed = <<fr.offset, fr.hash>>
           THEN /\ store' = fr.st
                /\ hist' = [Done("commit_same", 0, 0, FALSE) EXCEPT
                               !.chash = RootHash(root),
                               !.cmodel = model]
                /\ UNCHANGED <<root, last_committed, disk>>
           ELSE LET written == FlushBuf(WriteMetadata(fr.st, fr.offset, fr.hash).st)
                IN  /\ disk' = Durable(written, disk)
                    /\ store' = SyncAll(written)
                    /\ root' = Disk(fr.offset, fr.hash)
                    /\ last_committed' = <<fr.offset, fr.hash>>
                    /\ hist' = [Done("commit", 0, 0, FALSE) EXCEPT
                                   !.commits = hist.commits + 1,
                                   !.chash = RootHash(root),
                                   !.cmodel = model]
    /\ UNCHANGED <<keyHash, pc, model, root2, model2, hist2, adapter>>

\* the handle is dropped and the path is opened again: MerkleSearchTree::open
Reopen ==
    /\ pc.at = "idle"
    /\ hist.n < MaxOps
    /\ LET st == StoreOpen(store)
       IN  /\ store' = st
           /\ root' = TreeOpen(st).root
           /\ last_committed' = TreeOpen(st).last_committed
    /\ model' = hist.cmodel
    /\ hist' = Done("open", 0, 0, FALSE)
    /\ UNCHANGED <<keyHash, disk, pc, root2, model2, hist2, adapter>>

Next ==
    \/ \E k \in Keys, v \in Vals : Insert(k, v)
    \/ \E k \in Keys : Remove(k)
    \/ Commit
    \/ Reopen

Spec == Init /\ [][Next]_vars

\* ------------------------------------------------- two independent handles
\* tree2.insert(key, value) on a second fresh tree
Insert2(key, value) ==
    /\ LET r == TreeInsert(root2, TempStore, key, value)
       IN  /\ ~IsErr(r)
           /\ root2' = r
    /\ model2' = [model2 EXCEPT ![key] = value]
    /\ hist2' = [n |-> hist2.n + 1, fresh |-> hist2.fresh /\ model2[key] = 0]
    /\ UNCHANGED <<keyHash, root, last_committed, store, disk, pc, model, hist, adapter>>

\* tree2.remove(key)
Remove2(key) ==
    /\ LET r == TreeRemove(root2, TempStore, key)
       IN  /\ ~IsErr(r)
           /\ root2' = r
    /\ model2' = [model2 EXCEPT ![key] = 0]
    /\ hist2' = [n |-> hist2.n + 1, fresh |-> FALSE]
    /\ UNCHANGED <<keyHash, root, last_committed, store, disk, pc, model, hist, adapter>>

PairBudget == hist.n + hist2.n < MaxOps

NextPair ==
    \/ \E k \in Keys, v \in Vals : PairBudget /\ Insert(k, v)
    \/ \E k \in Keys : PairBudget /\ Remove(k)
    \/ \E k \in Keys, v \in Vals : PairBudget /\ Insert2(k, v)
    \/ \E k \in Keys : PairBudget /\ Remove2(k)

SpecPair == Init /\ [][NextPair]_vars

\* ------------------------------------------------- commit, step by step
\* the file a restart finds: the durable records and metadata fields
RecEnd(st, o) == o + 4 + DataLen(st.recs[o])

RECURSIVE MaxEnd(_, _)
MaxEnd(st, offsets) ==
    IF offsets = {} THEN PAGE_SIZE
    ELSE LET o == CHOOSE x \in offsets : \A y \in offsets : x >= y
         IN  RecEnd(st, o)

FileAfterCrash(st, d) ==
    [recs |-> [o \in d.recs |-> st.recs[o]],
     eof |-> MaxEnd(st, d.recs),
     meta |-> d.meta,
     path |-> st.path]

\* commit(): phase 1, flush_recursive, and the comparison with last_committed
CommitNodes ==
    /\ pc.at = "idle"
    /\ hist.n < MaxOps
    /\ hist.commits < MaxCommits
    /\ LET fr == FlushRecursive(store, root)
       IN  /\ store' = fr.st
           /\ IF last_committed = <<fr.offset, fr.hash>>
              THEN /\ pc' = pc
                   /\ hist' = [Done("commit_same", 0, 0, FALSE) EXCEPT
                                  !.chash = RootHash(root), !.cmodel = model]
              ELSE /\ pc' = [at |-> "publish", offset |-> fr.offset, hash |-> fr.hash]
                   /\ hist' = [hist EXCEPT !.n = hist.n + 1]
    /\ UNCHANGED <<keyHash, root, last_committed, disk, model, root2, model2, hist2, adapter>>

\* commit(): self.store.write_metadata(offset, hash)
CommitMeta ==
    /\ pc.at = "publish"
    /\ store' = WriteMetadata(store, pc.offset, pc.hash).st
    /\ pc' = [pc EXCEPT !.at = "flush"]
    /\ UNCHANGED <<keyHash, root, last_committed, disk, model, hist, root2, model2, hist2, adapter>>

\* commit(): self.store.flush(), its writer.flush()
CommitFlushBuf ==
    /\ pc.at = "flush"
    /\ store' = FlushBuf(store)
    /\ pc' = [pc EXCEPT !.at = "sync"]
    /\ UNCHANGED <<keyHash, root, last_committed, disk, model, hist, root2, model2, hist2, adapter>>

\* commit(): sync_all() returns, the root becomes a Disk link, Ok is returned
CommitSync ==
    /\ pc.at = "sync"
    /\ disk' = Durable(store, disk)
    /\ store' = SyncAll(store)
    /\ root' = Disk(pc.offset, pc.hash)
    /\ last_committed' = <<pc.offset, pc.hash>>
    /\ pc' = Idle
    /\ hist' = [hist EXCEPT !.op = "commit", !.preHash = RootHash(root),
                            !.preModel = model,
                            !.commits = hist.commits + 1,
                            !.chash = RootHash(root), !.cmodel = model]
    /\ UNCHANGED <<keyHash, model, root2, model2, hist2, adapter>>

\* the machine loses power: the BufWriter is gone, and of the writes the
\* OS held unsynced each one is either on the disk or lost
Crash ==
    /\ pc.at # "crashed"
    /\ hist.n < MaxOps
    /\ \E S \in SUBSET store.os :
        LET d == [recs |-> disk.recs \cup (S \ {META}),
                  meta |-> IF META \in S THEN store.meta ELSE disk.meta]
        IN  /\ disk' = d
            /\ store' = StoreOpen(FileAfterCrash(store, d))
            /\ hist' = [Done("crash", 0, 0, FALSE) EXCEPT
                           !.chash = IF META \in S THEN pc.hash ELSE hist.chash,
                           !.cmodel = IF META \in S THEN model ELSE hist.cmodel]
    /\ pc' = [pc EXCEPT !.at = "crashed"]
    /\ UNCHANGED <<keyHash, root, last_committed, model, root2, model2, hist2, adapter>>

\* after the restart: MerkleSearchTree::open on the path
Recover ==
    /\ pc.at = "crashed"
    /\ root' = TreeOpen(store).root
    /\ last_committed' = TreeOpen(store).last_committed
    /\ model' = hist.cmodel
    /\ pc' = Idle
    /\ hist' = [hist EXCEPT !.op = "open", !.preHash = RootHash(root),
                            !.preModel = model]
    /\ UNCHANGED <<keyHash, store, disk, root2, model2, hist2, adapter>>

NextCrash ==
    \/ \E k \in Keys, v \in Vals : Insert(k, v)
    \/ \E k \in Keys : Remove(k)
    \/ CommitNodes
    \/ CommitMeta
    \/ CommitFlushBuf
    \/ CommitSync
    \/ Crash
    \/ Recover

SpecCrash == Init /\ [][NextCrash]_vars

\* ------------------------------------------- operations that can fail
\* a tree from MerkleSearchTree::open on a new path or from new_temporary()
InitTree ==
    /\ keyHash \in [Keys -> HashPrefixes]
    /\ \A k \in Keys \ IoKeys : keyHash[k] = <<16>>
    /\ store \in {StoreOpen(FreshFile), TempStore}
    /\ root = Loaded(Empty(0))
    /\ last_committed = <<>>
    /\ disk = [recs |-> {}, meta |-> NoMeta]
    /\ pc = Idle
    /\ model = NoModel
    /\ root2 = Loaded(Empty(0))
    /\ model2 = NoModel
    /\ hist2 = [n |-> 0, fresh |-> TRUE]
    /\ adapter = NoAdapter

\* a call returned: Ok counts as an operation, an injected Err as a fault
DoneIo(op, key, val, ret, injected) ==
    [Done(op, key, val, FALSE) EXCEPT
        !.n = hist.n + (IF injected THEN 0 ELSE 1),
        !.faults = hist.faults + (IF injected THEN 1 ELSE 0),
        !.preOp = hist.op, !.preRoot = root, !.preStore = store,
        !.preRet = hist.ret, !.ret = ret]

\* another call may return
MayRun == hist.n < (IF hist.faulty THEN MaxFaultOps ELSE hist.max)

\* another call may be made to fail
MayFail == hist.faulty /\ hist.faults < MaxFaults

\* the store with every read of a record failing
HideAll(st) == [st EXCEPT !.recs = NoRecs]

\* load_node seeks before it reads: the first load of a call drains the
\* BufWriter
AfterLoads(st, loads) == IF loads THEN FlushBuf(st) ELSE st

\* insert returned r; loads: it had read a record
InsertReturned(key, value, r, loads) ==
    /\ store' = AfterLoads(store, loads)
    /\ IF IsErr(r)
       THEN /\ hist' = DoneIo("insert_err", key, value, <<>>, FALSE)
            /\ UNCHANGED <<root, model>>
       ELSE /\ root' = r
            /\ model' = [model EXCEPT ![key] = value]
            /\ hist' = DoneIo("insert", key, value, <<>>, FALSE)

\* tree.insert(key, value).  Err comes from a record that does not decode
\* or from a read that fails; a failure of the first seek leaves the
\* BufWriter as it was, a later failure finds it drained.
InsertIo(key, value) ==
    /\ MayRun
    /\ InsertReturned(key, value, TreeInsert(root, store, key, value),
                      IsErr(TreeInsert(root, HideAll(store), key, value)))
    /\ UNCHANGED <<keyHash, last_committed, disk, pc, root2, model2, hist2, adapter>>

\* tree.insert(key, value) in which an I/O call fails: only a call that
\* reads a record makes one
InsertFails(key, value) ==
    /\ MayFail
    /\ IsErr(TreeInsert(root, HideAll(store), key, value))
    /\ store' \in {store, FlushBuf(store)}
    /\ hist' = DoneIo("insert_err", key, value, <<>>, TRUE)
    /\ UNCHANGED <<keyHash, root, last_committed, disk, pc, model,
                   root2, model2, hist2, adapter>>

\* remove returned r; loads: it had read a record
RemoveReturned(key, r, loads) ==
    /\ store' = AfterLoads(store, loads)
    /\ IF IsErr(r)
       THEN /\ hist' = DoneIo("remove_err", key, 0, <<>>, FALSE)
            /\ UNCHANGED <<root, model>>
       ELSE /\ root' = r
            /\ model' = [model EXCEPT ![key] = 0]
            /\ hist' = DoneIo("remove", key, 0, <<>>, FALSE)

\* tree.remove(key)
RemoveIo(key) ==
    /\ MayRun
    /\ RemoveReturned(key, TreeRemove(root, store, key),
                      IsErr(TreeRemove(root, HideAll(store), key)))
    /\ UNCHANGED <<keyHash, last_committed, disk, pc, root2, model2, hist2, adapter>>

\* tree.remove(key) in which an I/O call fails
RemoveFails(key) ==
    /\ MayFail
    /\ IsErr(TreeRemove(root, HideAll(store), key))
    /\ store' \in {store, FlushBuf(store)}
    /\ hist' = DoneIo("remove_err", key, 0, <<>>, TRUE)
    /\ UNCHANGED <<keyHash, root, last_committed, disk, pc, model,
                   root2, model2, hist2, adapter>>

\* tree.get(key) or tree.contains(key) while the BufWriter holds writes:
\* a successful load drains it.  Nothing else of the state changes.
GetIo(key) ==
    /\ store.buf # {}
    /\ TreeGet(root, HideAll(store), key) = 0 - 1
    /\ store' = FlushBuf(store)
    /\ UNCHANGED <<keyHash, root, last_committed, disk, pc, model, hist,
                   root2, model2, hist2, adapter>>

\* everything the file holds is durable after a sync_all
AllDurable(st) == [recs |-> DOMAIN st.recs, meta |-> st.fmeta]

\* the state after commit() returned c
Committed(c, injected) ==
    /\ injected => ~c.ok
    /\ root' = c.root
    /\ last_committed' = c.last_committed
    /\ store' = c.st
    /\ disk' = IF c.ok /\ c.phase = 2 THEN AllDurable(c.st) ELSE disk
    /\ hist' = IF ~c.ok
               THEN DoneIo(IF c.phase = 1 THEN "commit_err1" ELSE "commit_err2",
                           0, 0, <<>>, injected)
               ELSE [DoneIo(IF c.phase = 0 THEN "commit_same" ELSE "commit",
                            0, 0, c.ret, FALSE) EXCEPT
                        !.commits = hist.commits + (IF c.phase = 2 THEN 1 ELSE 0),
                        !.chash = RootHash(root),
                        !.cmodel = model]

\* tree.commit()
CommitIo ==
    /\ hist.commits < MaxCommits
    /\ MayRun
    /\ Committed(TreeCommit(root, last_committed, store), FALSE)
    /\ UNCHANGED <<keyHash, pc, model, root2, model2, hist2, adapter>>

\* tree.commit() in which one of the I/O calls fails: at most two calls
\* for each record written, and four for the metadata and the flush
CommitFails ==
    /\ hist.commits < MaxCommits
    /\ MayFail
    /\ \E fail \in 1..(2 * Cardinality(DOMAIN TreeCommit(root, last_committed, store).st.recs
                                        \ DOMAIN store.recs) + 4) :
          Committed(TreeCommit(root, last_committed,
                               [store EXCEPT !.fail = fail]), TRUE)
    /\ UNCHANGED <<keyHash, pc, model, root2, model2, hist2, adapter>>

\* compact() returned c on a call that was not made to fail
Compacted(c) ==
    /\ root' = c.root
    /\ IF c.ok
       THEN /\ store' = c.st
            /\ disk' = AllDurable(c.st)
            /\ hist' = [DoneIo("compact", 0, 0, <<>>, FALSE) EXCEPT
                           !.chash = RootHash(root),
                           !.cmodel = model]
       ELSE /\ store' = FlushBuf(store)
            /\ disk' = disk
            /\ hist' = DoneIo("compact_err", 0, 0, <<>>, FALSE)

\* compact() returned Err on a failed call; loads: it had read a record
CompactFailed(c, loads) ==
    /\ ~c.ok
    /\ root' = c.root
    /\ store' \in {store, AfterLoads(store, loads)}
    /\ disk' = disk
    /\ hist' = DoneIo("compact_err", 0, 0, <<>>, TRUE)

\* tree.compact(new_path) with a path not used before
CompactIo ==
    /\ MayRun
    /\ Compacted(TreeCompact(root, store, store.path + 1, 0))
    /\ UNCHANGED <<keyHash, last_committed, pc, model, root2, model2, hist2, adapter>>

\* tree.compact(new_path) in which a read of the old file (fail = 0) or
\* one of the I/O calls on the new file fails
CompactFails ==
    /\ MayFail
    /\ \E fail \in 0..(2 * Cardinality(DOMAIN TreeCompact(root, store, store.path + 1,
                                                          0).file.recs) + 5) :
          CompactFailed(TreeCompact(root, IF fail = 0 THEN HideAll(store) ELSE store,
                                    store.path + 1, fail),
                        ~TreeCompact(root, HideAll(store), store.path + 1, 0).ok)
    /\ UNCHANGED <<keyHash, last_committed, pc, model, root2, model2, hist2, adapter>>

\* calls on one tree, none of them made to fail
InitCompact ==
    /\ InitTree
    /\ hist = NoHist(store)

NextCompact ==
    \/ \E k \in IoKeys, v \in Vals : InsertIo(k, v)
    \/ \E k \in IoKeys : RemoveIo(k)
    \/ CommitIo
    \/ CompactIo

SpecCompact == InitCompact /\ [][NextCompact]_vars

\* longer runs of the same calls on one tree opened from a new path, with
\* every key on one level
InitRecommit ==
    /\ InitTree
    /\ \A k \in Keys : keyHash[k] = <<16>>
    /\ store = StoreOpen(FreshFile)
    /\ hist = [NoHist(store) EXCEPT !.max = MaxRecommitOps]

SpecRecommit == InitRecommit /\ [][NextCompact]_vars

\* calls on one tree, some of them failing
InitFault ==
    /\ InitTree
    /\ hist = [NoHist(store) EXCEPT !.faulty = TRUE]

NextFault ==
    \/ \E k \in IoKeys, v \in Vals : InsertIo(k, v)
    \/ \E k \in IoKeys, v \in Vals : InsertFails(k, v)
    \/ \E k \in IoKeys : RemoveIo(k)
    \/ \E k \in IoKeys : RemoveFails(k)
    \/ \E k \in IoKeys : GetIo(k)
    \/ CommitIo
    \/ CommitFails
    \/ CompactIo
    \/ CompactFails

SpecFault == InitFault /\ [][NextFault]_vars

\* ------------------------------------------------------ concurrent readers
\* Threads that share &tree call get(key) while no writer runs.  pc holds
\*   pos      where each thread is: "idle", or inside load_node(want)
\*   key      the key of the thread's get
\*   want     the offset handed to load_node
\*   len      the record whose length prefix the thread has read, -1 when
\*            the four bytes were not a length prefix
\*   node     the node load_node returned to the thread
\*   ret      what get returned: the value, 0 for None, -1 for Err
\*   gets     the gets of the thread so far
\*   file     the threads that hold Store.file
\*   cacheR   the threads that hold Store.cache for reading
\*   cacheW   the thread that holds Store.cache for writing, 0 for none
\*   cursor   the position of the file: part 0 at the start of the record
\*            at, 1 behind its length prefix, 2 further on
\*   cache    Store.cache
Readers == 1..MaxReaders

\* the keys of the tree the readers share
StoredKeys == {1, MaxKey}

\* a lock taken for writing that other holders do not keep out
LockShared(holders) == TRUE

\* RwLock::write returns when nobody holds the lock
LockFree(holders) == holders = {}

\* the tree the threads read: keys inserted, then committed to a new file
RECURSIVE InsertAll(_, _, _)
InsertAll(r, st, k) ==
    IF k > MaxKey THEN r
    ELSE InsertAll(IF k \in StoredKeys THEN TreeInsert(r, st, k, 1) ELSE r,
                   st, k + 1)

SharedTree ==
    TreeCommit(InsertAll(Loaded(Empty(0)), StoreOpen(FreshFile), 1), <<>>,
               StoreOpen(FreshFile))

NoReaders ==
    [at |-> "readers",
     pos |-> [t \in Readers |-> "idle"],
     key |-> [t \in Readers |-> 0],
     want |-> [t \in Readers |-> 0],
     len |-> [t \in Readers |-> 0 - 1],
     node |-> [t \in Readers |-> Err],
     ret |-> [t \in Readers |-> 0],
     gets |-> [t \in Readers |-> 0],
     file |-> {}, cacheR |-> {}, cacheW |-> 0,
     cursor |-> [at |-> 0, part |-> 2],
     cache |-> [o \in {} |-> Err]]

InitReaders ==
    /\ keyHash \in [Keys -> HashPrefixes]
    /\ \A k \in Keys \ StoredKeys : keyHash[k] = <<16>>
    /\ root = SharedTree.root
    /\ last_committed = SharedTree.last_committed
    /\ store = SharedTree.st
    /\ disk = AllDurable(SharedTree.st)
    /\ pc = NoReaders
    /\ model = [k \in Keys |-> IF k \in StoredKeys THEN 1 ELSE 0]
    /\ hist = NoHist(StoreOpen(FreshFile))
    /\ root2 = Loaded(Empty(0))
    /\ model2 = NoModel
    /\ hist2 = [n |-> 0, fresh |-> TRUE]
    /\ adapter = NoAdapter

\* a step of a reader changes pc only
ReaderStep(next) ==
    /\ pc' = next
    /\ UNCHANGED <<keyHash, root, last_committed, store, disk, model, hist,
                   root2, model2, hist2, adapter>>

\* tree.get(key): resolve_link(&self.root) calls load_node(offset)
StartGet(t, key) ==
    /\ pc.pos[t] = "idle"
    /\ pc.gets[t] < MaxGets
    /\ root.tag = "Disk"
    /\ ReaderStep([pc EXCEPT !.pos[t] = "lookup", !.key[t] = key,
                             !.want[t] = root.offset, !.gets[t] = @ + 1])

\* load_node: self.cache.read()
CacheRead(t) ==
    /\ pc.pos[t] = "lookup"
    /\ pc.cacheW = 0
    /\ ReaderStep([pc EXCEPT !.pos[t] = "check", !.cacheR = @ \cup {t}])

\* load_node: cache.get(&offset); the read guard is dropped at the end of
\* the block, on a hit by the return
CacheLookup(t) ==
    /\ pc.pos[t] = "check"
    /\ ReaderStep(IF pc.want[t] \in DOMAIN pc.cache
                  THEN [pc EXCEPT !.pos[t] = "have",
                                  !.node[t] = pc.cache[pc.want[t]],
                                  !.cacheR = @ \ {t}]
                  ELSE [pc EXCEPT !.pos[t] = "lock", !.cacheR = @ \ {t}])

\* load_node: self.file.write()
FileLock(t) ==
    /\ pc.pos[t] = "lock"
    /\ LockFree(pc.file)
    /\ ReaderStep([pc EXCEPT !.pos[t] = "seek", !.file = @ \cup {t}])

\* load_node: writer_guard.seek(SeekFrom::Start(offset))
SeekStart(t) ==
    /\ pc.pos[t] = "seek"
    /\ ReaderStep([pc EXCEPT !.pos[t] = "len",
                             !.cursor = [at |-> pc.want[t], part |-> 0]])

\* load_node: file.read_exact(&mut len_buf), at the position of the file
ReadLen(t) ==
    /\ pc.pos[t] = "len"
    /\ ReaderStep([pc EXCEPT
            !.pos[t] = "body",
            !.len[t] = IF pc.cursor.part = 0 /\ pc.cursor.at \in DOMAIN store.recs
                       THEN pc.cursor.at ELSE 0 - 1,
            !.cursor.part = IF @ = 0 THEN 1 ELSE 2])

\* what read_exact(&mut buf) and postcard::from_bytes make of the bytes at
\* the position of the file, for a thread that has read the length len
Decoded(st, cursor, len) ==
    IF len >= 0 /\ cursor = [at |-> len, part |-> 1]
    THEN LoadNode(st, len) ELSE Err

\* load_node: file.read_exact(&mut buf) and the decoding; an error
\* returns from load_node and from get, which drops the file guard
ReadBody(t) ==
    /\ pc.pos[t] = "body"
    /\ ReaderStep(IF IsErr(Decoded(store, pc.cursor, pc.len[t]))
                  THEN [pc EXCEPT !.pos[t] = "idle", !.ret[t] = 0 - 1,
                                  !.file = @ \ {t}, !.cursor.part = 2]
                  ELSE [pc EXCEPT !.pos[t] = "decoded",
                                  !.node[t] = Decoded(store, pc.cursor, pc.len[t]),
                                  !.cursor.part = 2])

\* load_node: self.cache.write(), with the file guard still alive
CacheWrite(t) ==
    /\ pc.pos[t] = "decoded"
    /\ pc.cacheW = 0
    /\ LockFree(pc.cacheR)
    /\ ReaderStep([pc EXCEPT !.pos[t] = "insert", !.cacheW = t])

\* load_node: insert(offset, node.clone()); Ok(node) drops both guards
CacheInsert(t) ==
    /\ pc.pos[t] = "insert"
    /\ ReaderStep([pc EXCEPT
            !.pos[t] = "have",
            !.cache = [o \in DOMAIN @ \cup {pc.want[t]} |->
                          IF o = pc.want[t] THEN pc.node[t] ELSE @[o]],
            !.cacheW = 0,
            !.file = @ \ {t}])

\* Node::get on the node loaded: the value, None, or the child to load
Descend(t) ==
    /\ pc.pos[t] = "have"
    /\ LET self == pc.node[t]
           idx == SearchIdx(self.keys, pc.key[t])
       IN  ReaderStep(
             IF SearchFound(self.keys, pc.key[t])
             THEN [pc EXCEPT !.pos[t] = "idle", !.ret[t] = self.values[idx + 1]]
             ELSE IF self.children = <<>>
             THEN [pc EXCEPT !.pos[t] = "idle", !.ret[t] = 0]
             ELSE [pc EXCEPT !.pos[t] = "lookup",
                             !.want[t] = self.children[idx + 1].offset])

NextReaders ==
    \/ \E t \in Readers, k \in Keys : StartGet(t, k)
    \/ \E t \in Readers : CacheRead(t)
    \/ \E t \in Readers : CacheLookup(t)
    \/ \E t \in Readers : FileLock(t)
    \/ \E t \in Readers : SeekStart(t)
    \/ \E t \in Readers : ReadLen(t)
    \/ \E t \in Readers : ReadBody(t)
    \/ \E t \in Readers : CacheWrite(t)
    \/ \E t \in Readers : CacheInsert(t)
    \/ \E t \in Readers : Descend(t)

SpecReaders == InitReaders /\ [][NextReaders]_vars

\* ---------------------------------------------------------- async adapter
\* AsyncMerkleSearchTree::from(tree) moves the tree to a worker thread
\* behind mpsc::sync_channel(512); QueueCap stands for the 512.  adapter
\* holds:
\*   cmds      the Commands whose try_send succeeded, in that order; the
\*             index of a command is its id
\*   queue     the ids in the channel
\*   running   the ids the worker has received and not finished with
\*   executed  the ids in the order the worker called the tree with them
\*   ret       id -> what the tree call returned
\*   reply     id -> state of the oneshot channel of the command
\*   busy      the number of calls that found the channel full
\*   alive     the worker thread runs; it ends when a tree call panics
\*   broken    the number of calls that found the channel disconnected
\*   handles   the AsyncMerkleSearchTree values (clones) not yet dropped
\*   panicked  the worker thread ended by a panic
\*   pending   the commands not yet handled when the last handle went
Handles == 1..MaxHandles
AsyncKeys == 1..MaxAsyncKey

AsyncVals == 1..MaxAsyncVal

\* enum Command, without the reply sender
Commands ==
    [op : {"Insert"}, key : AsyncKeys, value : AsyncVals]
        \cup [op : {"Remove", "Get", "Contains"}, key : AsyncKeys, value : {0}]
        \cup [op : {"Commit", "Compact"}, key : {0}, value : {0}]

NoRet == <<"none">>
ErrRet == <<"Err">>
OkRet(x) == <<"Ok", x>>

\* SyncSender::try_send on a channel with room
Send(queue, id) == Append(queue, id)

\* a receiver that hands out the newest message
RecvNewest(queue) ==
    [id |-> queue[Len(queue)], rest |-> SubSeq(queue, 1, Len(queue) - 1)]

\* the next message of `for cmd in rx`
Recv(queue) == [id |-> Head(queue), rest |-> Tail(queue)]

\* a worker that takes the next command while one is being handled
WorkerAlwaysIdle(a) == TRUE

\* the worker thread is at the head of its loop: the match arm of the
\* command before is finished
WorkerIdle(a) == a.running = {}

\* the ids the worker has called the tree with
Executed == {adapter.executed[i] : i \in 1..Len(adapter.executed)}

\* the Insert arm: insert returned r; loads: it had read a record
ExecInsert(cmd, t, r, loads) ==
    IF IsErr(r) THEN [t EXCEPT !.store = AfterLoads(t.store, loads), !.ret = ErrRet]
    ELSE [t EXCEPT !.root = r, !.store = AfterLoads(t.store, loads),
                   !.ret = OkRet(0),
                   !.model = [t.model EXCEPT ![cmd.key] = cmd.value]]

\* the Remove arm
ExecRemove(cmd, t, r, loads) ==
    IF IsErr(r) THEN [t EXCEPT !.store = AfterLoads(t.store, loads), !.ret = ErrRet]
    ELSE [t EXCEPT !.root = r, !.store = AfterLoads(t.store, loads),
                   !.ret = OkRet(0),
                   !.model = [t.model EXCEPT ![cmd.key] = 0]]

\* get and contains: v is what the tree returned, loads whether it read
\* a record
ExecRead(t, v, loads) ==
    [t EXCEPT !.store = AfterLoads(t.store, loads),
              !.ret = IF v = 0 - 1 THEN ErrRet ELSE OkRet(v)]

\* the Commit arm: commit returned c
ExecCommit(t, c) ==
    [t EXCEPT !.root = c.root,
              !.last_committed = c.last_committed,
              !.store = c.st,
              !.disk = IF c.ok /\ c.phase = 2 THEN AllDurable(c.st) ELSE t.disk,
              !.ret = IF c.ok THEN OkRet(c.ret) ELSE ErrRet]

\* the Compact arm: compact returned c
ExecCompact(t, c) ==
    IF c.ok
    THEN [t EXCEPT !.root = c.root, !.store = c.st,
                   !.disk = AllDurable(c.st), !.ret = OkRet(0)]
    ELSE [t EXCEPT !.store = FlushBuf(t.store), !.ret = ErrRet]

\* the match arm of the worker loop: the tree call for one command and
\* what it returns; t holds the tree moved to the worker
Execute(cmd, t) ==
    CASE cmd.op = "Insert" ->
            ExecInsert(cmd, t, TreeInsert(t.root, t.store, cmd.key, cmd.value),
                       IsErr(TreeInsert(t.root, HideAll(t.store), cmd.key, cmd.value)))
      [] cmd.op = "Remove" ->
            ExecRemove(cmd, t, TreeRemove(t.root, t.store, cmd.key),
                       IsErr(TreeRemove(t.root, HideAll(t.store), cmd.key)))
      [] cmd.op = "Get" ->
            ExecRead(t, TreeGet(t.root, t.store, cmd.key),
                     TreeGet(t.root, HideAll(t.store), cmd.key) = 0 - 1)
      [] cmd.op = "Contains" ->
            ExecRead(t, TreeContains(t.root, t.store, cmd.key),
                     TreeContains(t.root, HideAll(t.store), cmd.key) = 0 - 1)
      [] cmd.op = "Commit" ->
            ExecCommit(t, TreeCommit(t.root, t.last_committed, t.store))
      [] cmd.op = "Compact" ->
            ExecCompact(t, TreeCompact(t.root, t.store, t.store.path + 1, 0))

\* the calls made on the handles so far
Calls == Len(adapter.cmds) + adapter.busy + adapter.broken

\* a channel without a bound
HasRoomAlways(queue) == TRUE

\* the buffer of sync_channel(512) takes another message
HasRoom(queue) == Len(queue) < QueueCap

\* a worker that does not run a command whose caller is gone
HandleUnlessDropped(cmd, dropped, t) ==
    IF dropped THEN [t EXCEPT !.ret = ErrRet] ELSE Execute(cmd, t)

\* the worker runs the command it received, whether or not the caller
\* has dropped the receiving end of resp
Handle(cmd, dropped, t) == Execute(cmd, t)

\* the ids in the channel
Queued(a) == {a.queue[i] : i \in 1..Len(a.queue)}

\* a worker whose end leaves the reply senders of its commands alive
LeakPending(a) ==
    [a EXCEPT !.alive = FALSE, !.queue = <<>>, !.running = {}]

\* the worker thread unwinds: rx is dropped, which disconnects the
\* channel and drops the commands in it, and the command in hand is
\* dropped; with each command goes its reply sender
DropPending(a) ==
    [a EXCEPT !.alive = FALSE, !.queue = <<>>, !.running = {},
              !.reply = [id \in DOMAIN a.reply |->
                            IF id \in a.running \cup Queued(a)
                               /\ a.reply[id] = "waiting"
                            THEN "closed" ELSE a.reply[id]]]

\* a handle's insert, remove, get, contains, commit or compact up to its
\* await: try_send finds room in the channel
Call(h, cmd) ==
    /\ Calls < MaxCalls
    /\ h \in adapter.handles
    /\ adapter.alive
    /\ HasRoom(adapter.queue)
    /\ adapter' = [adapter EXCEPT
            !.cmds = Append(@, [op |-> cmd.op, key |-> cmd.key,
                                value |-> cmd.value, handle |-> h,
                                behind |-> Len(adapter.queue)
                                            + Cardinality(adapter.running)]),
            !.queue = Send(@, Len(adapter.cmds) + 1),
            !.ret = Append(@, NoRet),
            !.reply = Append(@, "waiting")]
    /\ UNCHANGED <<keyHash, root, last_committed, store, disk, pc, model, hist,
                   root2, model2, hist2>>

\* the same call when try_send finds the channel full: Err(ResourceBusy)
CallBusy(h, cmd) ==
    /\ Calls < MaxCalls
    /\ h \in adapter.handles
    /\ adapter.alive
    /\ ~HasRoom(adapter.queue)
    /\ adapter' = [adapter EXCEPT !.busy = @ + 1]
    /\ UNCHANGED <<keyHash, root, last_committed, store, disk, pc, model, hist,
                   root2, model2, hist2>>

\* the same call when the worker is gone: try_send finds the channel
\* disconnected, Err(BrokenPipe)
CallBroken(h, cmd) ==
    /\ Calls < MaxCalls
    /\ h \in adapter.handles
    /\ ~adapter.alive
    /\ adapter' = [adapter EXCEPT !.broken = @ + 1]
    /\ UNCHANGED <<keyHash, root, last_committed, store, disk, pc, model, hist,
                   root2, model2, hist2>>

\* the worker takes the next command out of the channel
WorkerRecv ==
    /\ WorkerIdle(adapter)
    /\ adapter.queue # <<>>
    /\ LET m == Recv(adapter.queue)
       IN  adapter' = [adapter EXCEPT !.queue = m.rest,
                                      !.running = @ \cup {m.id}]
    /\ UNCHANGED <<keyHash, root, last_committed, store, disk, pc, model, hist,
                   root2, model2, hist2>>

\* the tree and the adapter after the call for id returned x
Ran(id, x) ==
    /\ root' = x.root
    /\ last_committed' = x.last_committed
    /\ store' = x.store
    /\ disk' = x.disk
    /\ model' = x.model
    /\ adapter' = [adapter EXCEPT !.executed = Append(@, id),
                                   !.ret[id] = x.ret]

\* the worker calls the tree with the command it holds
WorkerExec ==
    \E id \in adapter.running \ Executed :
        /\ \E x \in {Handle(adapter.cmds[id], adapter.reply[id] = "dropped",
                             [root |-> root, last_committed |-> last_committed,
                              store |-> store, disk |-> disk, model |-> model,
                              ret |-> NoRet])} : Ran(id, x)
        /\ UNCHANGED <<keyHash, pc, hist, root2, model2, hist2>>

\* the tree call panics (insert and remove serialize keys and values with
\* expect): the worker thread ends and the tree goes with it
WorkerPanics ==
    \E id \in adapter.running \ Executed :
        /\ adapter.cmds[id].op \in {"Insert", "Remove"}
        /\ adapter' = [DropPending(adapter) EXCEPT !.panicked = TRUE]
        /\ UNCHANGED <<keyHash, root, last_committed, store, disk, pc, model,
                       hist, root2, model2, hist2>>

\* resp.send(result): the reply goes to the caller, or nowhere when the
\* caller has dropped the receiver; the match arm ends
WorkerReply ==
    \E id \in adapter.running \cap Executed :
        /\ adapter' = [adapter EXCEPT
                !.running = @ \ {id},
                !.reply[id] = IF @ = "dropped" THEN "discarded" ELSE "sent"]
        /\ UNCHANGED <<keyHash, root, last_committed, store, disk, pc, model,
                       hist, root2, model2, hist2>>

\* the caller drops the future of a call before the reply is sent
CallerDrop ==
    \E id \in 1..Len(adapter.cmds) :
        /\ adapter.reply[id] = "waiting"
        /\ adapter' = [adapter EXCEPT !.reply[id] = "dropped"]
        /\ UNCHANGED <<keyHash, root, last_committed, store, disk, pc, model,
                       hist, root2, model2, hist2>>

\* resp_rx.await returns to the caller: the reply, or Err(BrokenPipe)
\* when the reply sender was dropped
CallerAwait ==
    \E id \in 1..Len(adapter.cmds) :
        /\ adapter.reply[id] \in {"sent", "closed"}
        /\ adapter' = [adapter EXCEPT
                !.reply[id] = IF @ = "sent" THEN "received" ELSE "broken"]
        /\ UNCHANGED <<keyHash, root, last_committed, store, disk, pc, model,
                       hist, root2, model2, hist2>>

\* AsyncMerkleSearchTree::open(path) on a new path
InitAsync ==
    /\ InitTree
    /\ \A k \in Keys : keyHash[k] = <<16>>
    /\ store = StoreOpen(FreshFile)
    /\ hist = NoHist(store)

NextAsync ==
    \/ \E h \in Handles, cmd \in Commands : Call(h, cmd)
    \/ \E h \in Handles, cmd \in Commands : CallBusy(h, cmd)
    \/ \E h \in Handles, cmd \in Commands : CallBroken(h, cmd)
    \/ WorkerRecv
    \/ WorkerExec
    \/ WorkerPanics
    \/ WorkerReply
    \/ CallerDrop
    \/ CallerAwait

SpecAsync == InitAsync /\ [][NextAsync]_vars

\* ------------------------------------------- async adapter, handles dropped
\* the future of a call borrows the handle: a handle with a call that is
\* still awaited cannot be dropped
Borrowed(a, h) ==
    \E id \in 1..Len(a.cmds) :
        a.cmds[id].handle = h /\ a.reply[id] \in {"waiting", "sent", "closed"}

\* the last clone of the handle is dropped, and with it a Sender of the
\* channel
DropHandle(h) ==
    /\ h \in adapter.handles
    /\ ~Borrowed(adapter, h)
    /\ adapter' = [adapter EXCEPT
            !.handles = @ \ {h},
            !.pending = IF adapter.handles = {h} /\ adapter.alive
                        THEN Len(adapter.queue)
                                + Cardinality(adapter.running \ Executed)
                        ELSE @]
    /\ UNCHANGED <<keyHash, root, last_committed, store, disk, pc, model, hist,
                   root2, model2, hist2>>

\* a receiver that reports the end as soon as the senders are gone
RecvEndsEarly(a) == a.handles = {}

\* `for cmd in rx` ends: every Sender is dropped and the channel is empty
RecvEnds(a) == a.handles = {} /\ a.queue = <<>>

\* the worker thread returns from its closure; the tree is dropped
WorkerExit ==
    /\ adapter.alive
    /\ WorkerIdle(adapter)
    /\ RecvEnds(adapter)
    /\ adapter' = [adapter EXCEPT !.alive = FALSE, !.queue = <<>>]
    /\ UNCHANGED <<keyHash, root, last_committed, store, disk, pc, model, hist,
                   root2, model2, hist2>>

\* the commands of the runs in which handles are dropped
LiveCommands == {cmd \in Commands : cmd.op = "Insert"}

NextAsyncLive ==
    \/ \E h \in Handles, cmd \in LiveCommands : Call(h, cmd)
    \/ \E h \in Handles, cmd \in LiveCommands : CallBusy(h, cmd)
    \/ \E h \in Handles, cmd \in LiveCommands : CallBroken(h, cmd)
    \/ \E h \in Handles : DropHandle(h)
    \/ WorkerRecv
    \/ WorkerExec
    \/ WorkerPanics
    \/ WorkerReply
    \/ WorkerExit
    \/ CallerDrop
    \/ CallerAwait

\* a step of the worker thread that returns from what it called
Worker == WorkerRecv \/ WorkerExec \/ WorkerReply \/ WorkerExit

\* the worker thread is scheduled again and again, and so is a task that
\* awaits a reply that has arrived
SpecAsyncLive ==
    /\ InitAsync
    /\ [][NextAsyncLive]_vars
    /\ WF_vars(Worker)
    /\ WF_vars(CallerAwait)

\* ------------------------------------------------- write_node on its own
\* the total lengths (4-byte prefix and payload) of the records written:
\* small ones, ones around a page, one over two pages
RecordSizes ==
    {5, 40, PAGE_SIZE \div 2, PAGE_SIZE - 1, PAGE_SIZE, PAGE_SIZE + 1,
     2 * PAGE_SIZE + 5}

\* no write_node has returned yet
NoWrite == [op |-> "none", n |-> 0, p |-> 0, s |-> 0, o |-> 0, recs |-> {}]

\* write_node returned w for a record of node_total_len bytes, the file
\* having ended at p
WroteRecord(w, node_total_len) ==
    /\ w.ok
    /\ store' = w.st
    /\ hist' = [op |-> "write_node", n |-> hist.n + 1, p |-> store.eof,
                s |-> node_total_len, o |-> w.offset,
                recs |-> DOMAIN store.recs]

\* Store::write_node of a record whose encoding takes node_total_len
\* bytes with its prefix
WriteRecord(node_total_len) ==
    /\ hist.n < MaxWrites
    /\ WroteRecord(WriteNodeAfterSeek(Seek(store), AsDiskRef(Empty(0)),
                                      node_total_len),
                   node_total_len)
    /\ UNCHANGED <<keyHash, root, last_committed, disk, pc, model, root2,
                   model2, hist2, adapter>>

\* a store of open() on a new path or of new_temporary()
InitPage ==
    /\ InitTree
    /\ \A k \in Keys : keyHash[k] = <<16>>
    /\ hist = NoWrite

NextPage == \E node_total_len \in RecordSizes : WriteRecord(node_total_len)

SpecPage == InitPage /\ [][NextPage]_vars

\* ================================================================== claims

\* C3: the tree refines a key-value map: between operations, get(k) returns
\* the value the reference map binds to k (None when unbound) and
\* contains(k) is true exactly when k is bound, for every key k.
RefinesMap ==
    pc.at = "idle" =>
        \A k \in Keys :
            /\ TreeGet(root, store, k) = model[k]
            /\ TreeContains(root, store, k) = (IF model[k] # 0 THEN 1 ELSE 0)

\* a remove of a bound key has just run and other keys are still bound
RefinesMapWitness ==
    /\ hist.op = "remove"
    /\ hist.preVal # 0
    /\ \E k \in Keys : model[k] # 0
    /\ root.tag = "Loaded"
    /\ \E i \in 1..Len(root.node.children) : root.node.children[i].tag = "Disk"

\* C4 (as claimed): from every reachable tree and every key k that is not
\* present, insert(k, v) followed by remove(k) gives back the root digest
\* the tree had before the insert.
RemoveAfterInsertRestores ==
    pc.at = "idle" =>
        \A k \in Keys, v \in Vals :
            model[k] = 0 =>
                RootHash(TreeRemove(TreeInsert(root, store, k, v), store, k))
                    = RootHash(root)

\* C5 (as claimed): a tree that holds no key has the all-zero root digest,
\* when new and after any inserts and removes that leave it without keys.
EmptyTreeZeroHash ==
    (pc.at = "idle" /\ model = NoModel) => RootHash(root) = ZeroHash

\* C6: inserting a pair that is already bound with an equal value leaves
\* the root digest unchanged.
InsertIdempotent ==
    (hist.op = "insert" /\ hist.preVal = hist.val) => RootHash(root) = hist.preHash

\* an equal pair was re-inserted below the root node, in a tree read back
\* from the file
InsertIdempotentWitness ==
    /\ hist.op = "insert"
    /\ hist.preVal = hist.val
    /\ root.tag = "Loaded"
    /\ ~SearchFound(root.node.keys, hist.key)
    /\ hist.commits > 0

\* C7: inserting a different value for a bound key changes the root digest.
UpdateChangesHash ==
    (hist.op = "insert" /\ hist.preVal # 0 /\ hist.preVal # hist.val)
        => RootHash(root) # hist.preHash

\* the value of a key that sits below the root node was replaced
UpdateChangesHashWitness ==
    /\ hist.op = "insert"
    /\ hist.preVal # 0
    /\ hist.preVal # hist.val
    /\ root.tag = "Loaded"
    /\ ~SearchFound(root.node.keys, hist.key)

HistoryIndependence ==
    (hist.fresh /\ hist2.fresh /\ model = model2)
        => RootHash(root) = RootHash(root2)

\* C2 (as claimed): two trees built by any insert and remove sequences
\* that end with equal key-to-value mappings have equal root digests.
CanonicalShape ==
    (model = model2) => RootHash(root) = RootHash(root2)

\* every record reachable from the record at offset o is durable
RECURSIVE DurableSubtree(_)
DurableSubtree(o) ==
    /\ o \in disk.recs
    /\ o \in DOMAIN store.recs
    /\ \A i \in 1..Len(store.recs[o].children) :
          DurableSubtree(store.recs[o].children[i][1])

\* C9 (as claimed): in a commit that publishes a new root, the node
\* records of the new root's subtree are durably synced before the
\* metadata is written at byte 0.
SyncBeforeMetadata ==
    pc.at \in {"flush", "sync"} => DurableSubtree(pc.offset)

\* C10 (as claimed): whenever the machine stops, the durable metadata page
\* holds no root, or a root whose record and every record reachable from
\* it are durable.
CrashConsistent ==
    disk.meta[1] # 0 => DurableSubtree(disk.meta[1])

\* the tree MerkleSearchTree::open finds once the handle is dropped (the
\* BufWriter flushes its buffer when dropped) and the path opened again
Reopened(st) == StoreOpen(FlushBuf(st))

\* a tree opened from what the store's file holds has digest h and the
\* bindings of m
OpensAs(st, h, m) ==
    LET t == TreeOpen(Reopened(st))
    IN  /\ RootHash(t.root) = h
        /\ \A k \in Keys :
              /\ TreeGet(t.root, Reopened(st), k) = m[k]
              /\ TreeContains(t.root, Reopened(st), k) = (IF m[k] # 0 THEN 1 ELSE 0)

\* C11 (as claimed): when commit() on a tree backed by a path returns Err
\* out of flush_recursive, the metadata fields of the file are the ones
\* it held before the call, and a tree opened from the path has the
\* digest and bindings of the last state that was committed.
FailedFlushKeepsMetadata ==
    (hist.op = "commit_err1" /\ store.path # 0) =>
        /\ store.fmeta = hist.preStore.fmeta
        /\ OpensAs(store, hist.chash, hist.cmodel)

FailedCalls == {"insert_err", "remove_err", "commit_err1", "commit_err2", "compact_err"}

\* C12: when insert, remove, commit or compact returns Err, the root link
\* is the one from before the call, the tree still uses the store it used
\* before, and root_hash, get and contains give what they gave before the
\* call, for every key.
FailedCallKeepsRoot ==
    hist.op \in FailedCalls =>
        /\ root = hist.preRoot
        /\ store.path = hist.preStore.path
        /\ RootHash(root) = hist.preHash
        /\ \A k \in Keys :
              /\ TreeGet(root, store, k) = TreeGet(hist.preRoot, hist.preStore, k)
              /\ TreeContains(root, store, k)
                    = TreeContains(hist.preRoot, hist.preStore, k)

\* a commit of a tree that holds keys failed after its node records and
\* its metadata had been written
FailedCallKeepsRootWitness ==
    /\ hist.op = "commit_err2"
    /\ \E k \in Keys : model[k] # 0
    /\ store.meta # hist.preStore.meta
    /\ DOMAIN store.recs # DOMAIN hist.preStore.recs

Reads(r, st) == [k \in Keys |-> <<TreeGet(r, st, k), TreeContains(r, st, k)>>]

\* C14: after compact(new_path) returned Ok, get and contains give for
\* every key what they gave before the call, and root_hash() is the digest
\* from before the call, whatever mix of Loaded and Disk nodes the tree held.
CompactPreserves ==
    hist.op = "compact" =>
        /\ RootHash(root) = hist.preHash
        /\ Reads(root, store) = Reads(hist.preRoot, hist.preStore)
        /\ \A k \in Keys : TreeGet(root, store, k) = model[k]

\* a tree with keys, Loaded nodes over Disk links, was compacted
CompactPreservesWitness ==
    /\ hist.op = "compact"
    /\ hist.preRoot.tag = "Loaded"
    /\ \E i \in 1..Len(hist.preRoot.node.children) :
          hist.preRoot.node.children[i].tag = "Disk"
    /\ \E k \in Keys : model[k] # 0

\* the offsets of the records a link reaches in a store
RECURSIVE ReachableRecords(_, _)
ReachableRecords(st, link) ==
    LET node == Resolve(st, link)
        here == IF link.tag = "Disk" THEN {link.offset} ELSE {}
    IN  IF IsErr(node) THEN here
        ELSE here \cup UNION {ReachableRecords(st, node.children[i]) :
                                i \in 1..Len(node.children)}

\* the records of the file that the root does not reach
Unreachable(st, r) == DOMAIN st.recs \ ReachableRecords(st, r)

CompactSelfContained ==
    hist.op = "compact" =>
        /\ root.tag = "Disk"
        /\ store.fmeta = <<root.offset, root.hash>>
        /\ root.offset >= PAGE_SIZE
        /\ \A o \in DOMAIN store.recs :
              \A i \in 1..Len(store.recs[o].children) :
                  store.recs[o].children[i][1] \in DOMAIN store.recs
        /\ LET t == TreeOpen(Reopened(store))
           IN  /\ RootHash(t.root) = RootHash(root)
               /\ Reads(t.root, Reopened(store)) = Reads(root, store)
               /\ Reads(t.root, Reopened(store)) = Reads(hist.preRoot, hist.preStore)

\* a tree with keys was compacted out of a file that held unreachable
\* records, so that offsets in the new file differ from the old ones
CompactSelfContainedWitness ==
    /\ hist.op = "compact"
    /\ \E k \in Keys : model[k] # 0
    /\ Unreachable(hist.preStore, hist.preRoot) # {}
    /\ \E o \in DOMAIN store.recs : store.recs[o].children # <<>>
    /\ store.path = hist.preStore.path + 1

CommitReturned == hist.op \in {"commit", "commit_same"}

\* C17 (as claimed): commit() that returns Ok leaves root_hash() as it
\* was, and afterwards get(k) and contains(k) return Ok with the result
\* they had before the commit, for every key, on trees opened from a path
\* and on trees made by new_temporary().
CommitTransparent ==
    CommitReturned =>
        /\ RootHash(root) = hist.preHash
        /\ Reads(root, store) = Reads(hist.preRoot, hist.preStore)
        /\ \A k \in Keys : TreeGet(root, store, k) # 0 - 1
                           /\ TreeContains(root, store, k) # 0 - 1

\* C18 (as claimed): the offset commit() returns with Ok is greater
\* than 0, on trees opened from a path and on trees made by
\* new_temporary().
CommittedOffsetNotZero ==
    CommitReturned => hist.ret[1] > 0

\* the reference map after the first n commands of cmds, in that order;
\* a command that returned Err leaves the map as it was
RECURSIVE Replay(_, _, _)
Replay(cmds, ret, n) ==
    IF n = 0 THEN NoModel
    ELSE LET m == Replay(cmds, ret, n - 1)
             cmd == cmds[n]
         IN  IF ret[n] = ErrRet THEN m
             ELSE IF cmd.op = "Insert" THEN [m EXCEPT ![cmd.key] = cmd.value]
             ELSE IF cmd.op = "Remove" THEN [m EXCEPT ![cmd.key] = 0]
             ELSE m

\* C19: the worker calls the tree with the accepted commands in the order
\* their try_send succeeded, whichever handle sent them: the i-th tree
\* call is for the i-th accepted command, the commands not yet taken wait
\* in the channel in that same order while the worker runs, none is run
\* twice, and the tree holds what the executed commands yield in that order.
AsyncFifo ==
    LET a == adapter
        done == Len(a.executed)
        taken == Len(a.cmds) - Len(a.queue)
    IN  /\ \A i \in 1..done : a.executed[i] = i
        /\ a.alive =>
              /\ \A i \in 1..Len(a.queue) : a.queue[i] = taken + i
              /\ a.running \subseteq {taken}
              /\ done \in {taken - Cardinality(a.running \ Executed), taken}
        /\ model = Replay(a.cmds, a.ret, done)
        /\ \A k \in AsyncKeys : TreeGet(root, store, k) = model[k]

\* two commands sent by different handles, the second while the first
\* was still waiting, have both run, and their order mattered
AsyncFifoWitness ==
    /\ Len(adapter.executed) >= 2
    /\ adapter.cmds[1].handle # adapter.cmds[2].handle
    /\ adapter.cmds[2].behind >= 1
    /\ adapter.cmds[1].op = "Insert"
    /\ adapter.cmds[2].op = "Remove"
    /\ model[adapter.cmds[1].key] = 0

\* the reply of a command has left the worker
Replied(id) == adapter.reply[id] \in {"sent", "discarded", "received"}

\* C20: whatever the handles send, the worker holds at most one command
\* at a time, and while it holds one every command accepted before it has
\* been executed and its reply sent or discarded.
AsyncMutualExclusion ==
    /\ Cardinality(adapter.running) <= 1
    /\ \A id \in adapter.running :
          \A j \in 1..(id - 1) : j \in Executed /\ Replied(j)
    /\ \A id \in 1..Len(adapter.cmds) :
          Replied(id) => id \in Executed /\ id \notin adapter.running

\* the worker holds a command while commands of both handles wait in the
\* channel and an earlier command has been replied to
AsyncMutualExclusionWitness ==
    /\ Cardinality(adapter.running) = 1
    /\ Len(adapter.queue) >= 1
    /\ \E id \in adapter.running :
          /\ id > 1
          /\ Replied(id - 1)
          /\ adapter.cmds[id].handle # adapter.cmds[adapter.queue[1]].handle

\* the tree the worker owns
WorkerTree == <<root, last_committed, store, disk, model>>

\* C21: the channel never holds more than its capacity, and a call made
\* while it is full returns ResourceBusy at once: the command is not
\* enqueued, nothing is executed by the call, and the tree, the channel
\* and the accepted commands are as they were before the call.
BackPressure ==
    [][/\ Len(adapter'.queue) <= QueueCap
       /\ (adapter.alive /\ Len(adapter.queue) >= QueueCap /\ Calls' # Calls) =>
              /\ adapter'.busy = adapter.busy + 1
              /\ adapter'.cmds = adapter.cmds
              /\ adapter'.queue = adapter.queue
              /\ adapter'.executed = adapter.executed
              /\ adapter'.running = adapter.running
              /\ WorkerTree' = WorkerTree]_vars

\* a call found the channel full, and the commands that filled it have
\* all run since
BackPressureWitness ==
    /\ adapter.busy >= 1
    /\ Len(adapter.cmds) >= QueueCap
    /\ Len(adapter.executed) = Len(adapter.cmds)

\* C22: once the worker thread has ended, the channel and the worker hold
\* nothing, every accepted command that got no reply has its reply sender
\* dropped (its await returns BrokenPipe, or its caller gave the future
\* up) and was never given an Ok, no call waits for a reply that cannot
\* come, every further call returns BrokenPipe out of try_send without
\* being accepted, and the tree is not touched again.
WorkerLoss ==
    [][~adapter'.alive =>
          /\ adapter'.queue = <<>>
          /\ adapter'.running = {}
          /\ \A id \in 1..Len(adapter'.cmds) :
                \/ /\ adapter'.reply[id] \in {"sent", "received", "discarded"}
                   /\ \E i \in 1..Len(adapter'.executed) :
                          adapter'.executed[i] = id
                \/ /\ adapter'.reply[id] \in {"closed", "broken", "dropped"}
                   /\ adapter'.ret[id] = NoRet
          /\ ~adapter.alive =>
                /\ WorkerTree' = WorkerTree
                /\ adapter'.executed = adapter.executed
                /\ adapter'.cmds = adapter.cmds
                /\ Calls' # Calls => adapter'.broken = adapter.broken + 1]_vars

\* the worker ended while it held a command: the await of that command
\* returned BrokenPipe, and so did a call made afterwards
WorkerLossWitness ==
    /\ ~adapter.alive
    /\ adapter.broken >= 1
    /\ \E id \in 1..Len(adapter.cmds) : adapter.reply[id] = "broken"

\* the callers that gave up the future of their call
Abandoned == {id \in 1..Len(adapter.cmds) :
                adapter.reply[id] \in {"dropped", "discarded"}}

\* C23: a command whose caller dropped the future stays where it was: it
\* waits in the channel or is in the worker's hand until the worker has
\* called the tree with it, in its place in the order of acceptance; the
\* tree call is made as for any other command (an insert or remove
\* returns Ok), later reads see its effect, and handing the reply to
\* nobody leaves the worker running with the rest of the channel.
NoCancellation ==
    [][/\ \A id \in Abandoned' :
             /\ adapter'.alive =>
                   \/ id \in Queued(adapter')
                   \/ id \in adapter'.running
                   \/ /\ id <= Len(adapter'.executed)
                      /\ adapter'.executed[id] = id
             /\ adapter'.reply[id] = "discarded" =>
                   /\ id <= Len(adapter'.executed)
                   /\ adapter'.executed[id] = id
             /\ (id <= Len(adapter'.executed)
                   /\ adapter'.cmds[id].op \in {"Insert", "Remove"}) =>
                   adapter'.ret[id] = OkRet(0)
       /\ model' = Replay(adapter'.cmds, adapter'.ret, Len(adapter'.executed))
       /\ \A k \in AsyncKeys : TreeGet(root', store', k) = model'[k]
       /\ \A id \in Abandoned :
             (adapter.reply[id] = "dropped" /\ adapter'.reply[id] = "discarded") =>
                 /\ adapter'.alive
                 /\ adapter'.queue = adapter.queue]_vars

\* the caller of an insert dropped the future before the worker took the
\* command; the worker ran it all the same, and a get sent after it
\* returned the value it bound
NoCancellationWitness ==
    /\ Len(adapter.executed) >= 2
    /\ adapter.reply[1] = "discarded"
    /\ adapter.cmds[1].op = "Insert"
    /\ adapter.cmds[2].op = "Get"
    /\ adapter.cmds[2].key = adapter.cmds[1].key
    /\ adapter.ret[2] = OkRet(adapter.cmds[1].value)

\* C24: every record the store of the tree holds starts at or after
\* PAGE_SIZE, whether the store came from open, new_temporary or compact,
\* so that the metadata bytes [0, 40) never lie over a record.
MetadataPageReserved ==
    \A o \in DOMAIN store.recs : o >= PAGE_SIZE

\* C25: write_node that found the file ending at p, for a record of s
\* bytes in all, returns o with: when s <= PAGE_SIZE, o >= p, the record
\* lies within one page, o = p when s fits in the rest of the page of p
\* and o is the next multiple of PAGE_SIZE otherwise, with no record in
\* the gap; when s > PAGE_SIZE, o = p.  The file then ends at o + s.
PageBoundaryRule ==
    hist.op = "write_node" =>
        LET p == hist.p
            s == hist.s
            o == hist.o
            rest == PAGE_SIZE - (p % PAGE_SIZE)
        IN  /\ store.eof = o + s
            /\ o \in DOMAIN store.recs
            /\ s > PAGE_SIZE => o = p
            /\ s <= PAGE_SIZE =>
                  /\ o >= p
                  /\ o \div PAGE_SIZE = (o + s - 1) \div PAGE_SIZE
                  /\ s <= rest => o = p
                  /\ s > rest =>
                        /\ o = (p \div PAGE_SIZE + 1) * PAGE_SIZE
                        /\ \A r \in DOMAIN store.recs : ~(p <= r /\ r < o)

\* a record of at most a page was padded to the next page, after a record
\* of more than a page had left the file ending inside a page
PageBoundaryRuleWitness ==
    /\ hist.op = "write_node"
    /\ hist.s <= PAGE_SIZE
    /\ hist.o > hist.p
    /\ hist.p % PAGE_SIZE # 0
    /\ \E r \in hist.recs : hist.p - r > PAGE_SIZE

\* load_node of every offset that write_node returned for the nodes under
\* a link gives back the node that was written: the record decodes and
\* carries the hash that the link took from the node
RECURSIVE RoundTrips(_, _)
RoundTrips(st, link) ==
    LET node == Resolve(st, link)
    IN  /\ ~IsErr(node)
        /\ link.tag = "Disk" => node.hash = link.hash
        /\ \A i \in 1..Len(node.children) : RoundTrips(st, node.children[i])

\* C26: a record stays as write_node wrote it whatever the store is asked
\* to do afterwards: every link of the tree to an offset that write_node
\* returned loads, whether from the file or from the cache, the node
\* with the level, keys, values, child links and hash that were written.
RecordsImmutable ==
    RoundTrips(store, root)

\* C27: every record that write_node put into the store of the tree
\* names as children only records that were written to the same store
\* before it: each child offset is the start of a record of the store and
\* lies before the record itself.  write_node is never given a node with
\* a Loaded child.
ChildrenWrittenFirst ==
    \A o \in DOMAIN store.recs :
        ~IsErr(store.recs[o]) =>
            \A i \in 1..Len(store.recs[o].children) :
                /\ store.recs[o].children[i][1] \in DOMAIN store.recs
                /\ store.recs[o].children[i][1] < o

\* a commit or a compact wrote a root with two children or more
ChildrenWrittenFirstWitness ==
    /\ hist.op \in {"commit", "compact"}
    /\ root.tag = "Disk"
    /\ root.offset \in DOMAIN store.recs
    /\ ~IsErr(store.recs[root.offset])
    /\ Len(store.recs[root.offset].children) >= 2

\* C28: when commit() has returned Ok((o, d)), after whatever inserts,
\* removes, commits and compacts came before, the root is the link
\* Disk(o, d), last_committed is (o, d), and the metadata of the store
\* the tree uses, as written and as the file holds it, is (o, d).
CommitPostCondition ==
    CommitReturned =>
        /\ root = Disk(hist.ret[1], hist.ret[2])
        /\ last_committed = hist.ret
        /\ store.meta = hist.ret
        /\ store.fmeta = hist.ret

\* the keys met by an in-order traversal under a link: child 0, key 1,
\* child 1, ..., from position i of the node on
RECURSIVE InOrder(_, _)
RECURSIVE InOrderFrom(_, _, _)
InOrderFrom(st, node, i) ==
    IF i > Len(node.children) THEN <<>>
    ELSE InOrder(st, node.children[i])
         \o (IF i <= Len(node.keys) THEN <<node.keys[i]>> ELSE <<>>)
         \o InOrderFrom(st, node, i + 1)

InOrder(st, link) ==
    IF IsErr(Resolve(st, link)) THEN <<>>
    ELSE IF Resolve(st, link).children = <<>> THEN Resolve(st, link).keys
    ELSE InOrderFrom(st, Resolve(st, link), 1)

\* the keys under a link
KeysUnder(st, link) ==
    {InOrder(st, link)[i] : i \in 1..Len(InOrder(st, link))}

\* the nodes under a link, the node of the link included
RECURSIVE NodesUnder(_, _)
NodesUnder(st, link) ==
    IF IsErr(Resolve(st, link)) THEN {}
    ELSE {Resolve(st, link)}
         \cup UNION {NodesUnder(st, Resolve(st, link).children[i]) :
                        i \in 1..Len(Resolve(st, link).children)}

\* C29: between operations, in every node under the root the keys are
\* strictly ascending, the keys under child i are less than key i and
\* the keys under the child after key i are greater than key i, and the
\* in-order traversal of the tree is strictly ascending and holds
\* exactly the keys that are bound.
SearchTreeOrdering ==
    pc.at = "idle" =>
        /\ \A node \in NodesUnder(store, root) :
              /\ \A i \in 1..(Len(node.keys) - 1) : node.keys[i] < node.keys[i + 1]
              /\ \A i \in 1..Len(node.keys) :
                    node.children # <<>> =>
                        /\ i + 1 <= Len(node.children)
                        /\ \A k \in KeysUnder(store, node.children[i]) :
                              k < node.keys[i]
                        /\ \A k \in KeysUnder(store, node.children[i + 1]) :
                              k > node.keys[i]
        /\ \A i \in 1..(Len(InOrder(store, root)) - 1) :
              InOrder(store, root)[i] < InOrder(store, root)[i + 1]
        /\ KeysUnder(store, root) = {k \in Keys : model[k] # 0}

\* a remove has just run on a tree of two levels that still holds two
\* keys or more
SearchTreeOrderingWitness ==
    /\ pc.at = "idle"
    /\ hist.op = "remove"
    /\ hist.preVal # 0
    /\ Len(InOrder(store, root)) >= 2
    /\ \E node \in NodesUnder(store, root) :
          node.keys # <<>> /\ node.children # <<>>
          /\ \E i \in 1..Len(node.children) :
                KeysUnder(store, node.children[i]) # {}

\* C30: between operations, every key of every node under the root has
\* the level of the node: level(k) = node.level.
LevelBinding ==
    pc.at = "idle" =>
        \A node \in NodesUnder(store, root) :
            \A i \in 1..Len(node.keys) : CalcLevel(node.keys[i]) = node.level

\* the remove of a key of a higher level has just merged its two
\* children into a node of level 0 that holds two keys
LevelBindingWitness ==
    /\ pc.at = "idle"
    /\ hist.op = "remove"
    /\ hist.preVal # 0
    /\ CalcLevel(hist.key) >= 1
    /\ \E node \in NodesUnder(store, root) :
          node.level = 0 /\ Len(node.keys) >= 2

\* C31: between operations, every child of every node under the root,
\* the empty ones included, has a level strictly below the level of the
\* node.
LevelMonotone ==
    pc.at = "idle" =>
        \A node \in NodesUnder(store, root) :
            \A i \in 1..Len(node.children) :
                ~IsErr(Resolve(store, node.children[i])) =>
                    Resolve(store, node.children[i]).level < node.level

\* C32: between operations, every node under the root has as many values
\* as keys, and either one child more than keys or neither keys nor
\* children; so the children that put, split, delete and merge index
\* exist.
NodeShape ==
    pc.at = "idle" =>
        \A node \in NodesUnder(store, root) :
            /\ Len(node.values) = Len(node.keys)
            /\ \/ Len(node.children) = Len(node.keys) + 1
               \/ node.keys = <<>> /\ node.children = <<>>

\* the remove of a bound key has just merged the two children around it
\* and left a node of two keys and three children
NodeShapeWitness ==
    /\ pc.at = "idle"
    /\ hist.op = "remove"
    /\ hist.preVal # 0
    /\ \E node \in NodesUnder(store, root) :
          Len(node.keys) = 2 /\ Len(node.children) = 3

\* C33: when a remove has returned, the root is not a node without keys
\* that has children: a root that lost its last key was replaced by its
\* one child, and that child is empty or holds a key.
RootCollapsed ==
    (pc.at = "idle" /\ hist.op = "remove" /\ ~IsErr(Resolve(store, root))) =>
        ~(Resolve(store, root).keys = <<>>
            /\ Resolve(store, root).children # <<>>)

\* the key-value pairs of the nodes under a link
PairsUnder(st, link) ==
    UNION {{<<node.keys[i], node.values[i]>> : i \in 1..Len(node.keys)} :
              node \in NodesUnder(st, link)}

\* C34: for every subtree under the root and every key s, split(s) gives
\* a left tree that holds exactly the pairs of the subtree with a key
\* below s and a right tree that holds exactly those with a key above s,
\* a pair with key s is in neither, and both have the level of the
\* subtree.
SplitCorrect ==
    pc.at = "idle" =>
        \A node \in NodesUnder(store, root) : \A s \in Keys :
            ~IsErr(Split(node, s, store)) =>
                /\ PairsUnder(store, Loaded(Split(node, s, store).left))
                      = {p \in PairsUnder(store, Loaded(node)) : p[1] < s}
                /\ PairsUnder(store, Loaded(Split(node, s, store).right))
                      = {p \in PairsUnder(store, Loaded(node)) : p[1] > s}
                /\ Split(node, s, store).left.level = node.level
                /\ Split(node, s, store).right.level = node.level

\* an insert has just split a subtree that held keys on both sides of
\* the new key, which is now alone in the root above the two halves; and
\* the tree holds a key whose own split leaves it out
SplitCorrectWitness ==
    /\ pc.at = "idle"
    /\ hist.op = "insert"
    /\ ~IsErr(Resolve(store, root))
    /\ Resolve(store, root).keys = <<hist.key>>
    /\ Len(Resolve(store, root).children) = 2
    /\ KeysUnder(store, Resolve(store, root).children[1]) # {}
    /\ KeysUnder(store, Resolve(store, root).children[2]) # {}

\* the ordering of C29 for the subtree under a link
Ordered(st, link) ==
    /\ \A node \in NodesUnder(st, link) :
          /\ \A i \in 1..(Len(node.keys) - 1) : node.keys[i] < node.keys[i + 1]
          /\ \A i \in 1..Len(node.keys) :
                node.children # <<>> =>
                    /\ i + 1 <= Len(node.children)
                    /\ \A k \in KeysUnder(st, node.children[i]) : k < node.keys[i]
                    /\ \A k \in KeysUnder(st, node.children[i + 1]) : k > node.keys[i]
    /\ \A i \in 1..(Len(InOrder(st, link)) - 1) :
          InOrder(st, link)[i] < InOrder(st, link)[i + 1]

\* what C35 asks of m = merge(left, right)
Merged(st, left, right, m) ==
    /\ PairsUnder(st, m) = PairsUnder(st, left) \cup PairsUnder(st, right)
    /\ Ordered(st, m)
    /\ IF IsEmptyNode(Resolve(st, left)) THEN Resolve(st, m) = Resolve(st, right)
       ELSE IF IsEmptyNode(Resolve(st, right)) THEN Resolve(st, m) = Resolve(st, left)
       ELSE Resolve(st, m).level
               = (IF Resolve(st, left).level > Resolve(st, right).level
                  THEN Resolve(st, left).level ELSE Resolve(st, right).level)

\* C35: for every two neighbouring children of a node under the root
\* (ordered subtrees, every key of the left below every key of the right)
\* merge returns a subtree that holds exactly the pairs of both, is
\* ordered, and has the larger of the two levels, or is the other side
\* when one side is the empty node.
MergeCorrect ==
    pc.at = "idle" =>
        \A node \in NodesUnder(store, root) :
            \A i \in 1..(Len(node.children) - 1) :
                (/\ Ordered(store, node.children[i])
                 /\ Ordered(store, node.children[i + 1])
                 /\ ~IsErr(Merge(node.children[i], node.children[i + 1], store)))
                    => Merged(store, node.children[i], node.children[i + 1],
                              Merge(node.children[i], node.children[i + 1], store))

\* the remove of a key has just merged its two children, which held a
\* key each, on different levels
MergeCorrectWitness ==
    /\ pc.at = "idle"
    /\ hist.op = "remove"
    /\ hist.preVal # 0
    /\ \E a, b \in Keys :
          /\ a < hist.key
          /\ hist.key < b
          /\ CalcLevel(a) # CalcLevel(b)
          /\ CalcLevel(a) < CalcLevel(hist.key)
          /\ CalcLevel(b) < CalcLevel(hist.key)
          /\ InOrder(store, root) = <<a, b>>

\* commit() on this handle would write nothing
CommitIsNoOp(st, r, lc) ==
    lc = <<FlushRecursive(st, r).offset, FlushRecursive(st, r).hash>>

\* C36: a remove of a key the tree does not hold returns Ok and leaves
\* the root link and last_committed as they were, so that a commit that
\* was a no-op before the remove is a no-op after it.
RemoveAbsentIsNoOp ==
    [][(/\ hist'.n = hist.n + 1
        /\ hist'.op \in {"remove", "remove_err"}
        /\ TreeGet(root, store, hist'.key) = 0)
          => /\ hist'.op = "remove"
             /\ root' = root
             /\ last_committed' = last_committed
             /\ CommitIsNoOp(store, root, last_committed)
                   => CommitIsNoOp(store', root', last_committed')]_vars

\* a remove of an absent key has returned on a committed tree that holds
\* another key
RemoveAbsentIsNoOpWitness ==
    /\ pc.at = "idle"
    /\ hist.op = "remove"
    /\ TreeGet(root, store, hist.key) = 0
    /\ hist.preHash = RootHash(root)
    /\ hist.preHash # ZeroHash
    /\ root.tag = "Disk"
    /\ CommitIsNoOp(store, root, last_committed)

\* the thread holds the cache lock
HoldsCache(t) == t \in pc.cacheR \/ pc.cacheW = t

\* every thread that is not idle has a step, or another thread has one
NoReaderStuck ==
    (\E t \in Readers : pc.pos[t] # "idle") => ENABLED NextReaders

\* each load_node returned the node of the offset asked for, the cache
\* holds for each offset its node, each get returned what the tree holds
ReadersGetTheirNodes ==
    /\ \A t \in Readers :
          /\ pc.pos[t] \in {"decoded", "insert", "have"}
                => pc.node[t] = LoadNode(store, pc.want[t])
          /\ (pc.pos[t] = "idle" /\ pc.gets[t] > 0)
                => pc.ret[t] = TreeGet(root, store, pc.key[t])
          /\ pc.pos[t] \in {"len", "body"}
                => pc.file = {t}
    /\ \A o \in DOMAIN pc.cache : pc.cache[o] = LoadNode(store, o)

\* C37 as stated: readers get their nodes, the cache is right, no reader
\* is stuck, and no thread holds the cache lock while it acquires or
\* holds the file lock.
ReadersSafeAsStated ==
    /\ ReadersGetTheirNodes
    /\ NoReaderStuck
    /\ \A t \in Readers :
          HoldsCache(t) => (pc.pos[t] # "lock" /\ t \notin pc.file)

\* C37: with several get calls running on one committed tree and no
\* writer, the seek and the two reads of a load_node happen under the
\* file lock with no other thread in between, each load_node returns the
\* node of its offset, the cache maps each offset to its node, each get
\* returns what the tree holds, and some thread can always move; the
\* cache lock is not held while the file lock is acquired nor during the
\* seek and the reads, and is taken for the insert while the file lock is
\* still held.
ReadersSafe ==
    /\ ReadersGetTheirNodes
    /\ NoReaderStuck
    /\ \A t \in Readers :
          /\ HoldsCache(t) => pc.pos[t] \notin {"lock", "seek", "len", "body"}
          /\ pc.pos[t] = "insert" => (pc.cacheW = t /\ t \in pc.file)

\* two threads missed the cache on the same offset: one has inserted the
\* node and gone on, the other waits for the file lock
ReadersSafeWitness ==
    /\ pc.at = "readers"
    /\ \E t, u \in Readers :
          /\ t # u
          /\ pc.pos[u] = "lock"
          /\ pc.want[u] \in DOMAIN pc.cache
          /\ pc.pos[t] \in {"seek", "len", "body"}
          /\ pc.want[t] # pc.want[u]

\* C38: after every completed open, insert, remove, commit and compact,
\* last_committed is None when the metadata page of the store the tree
\* holds has root offset 0, and is the (offset, digest) pair of that page
\* otherwise.
LastCommittedTracksMetadata ==
    (pc.at = "idle"
     /\ hist.op \in {"open", "insert", "remove", "commit", "commit_same", "compact"})
        => last_committed = ReadMetadata(store)

\* try_send took the command with this id
Accepted(id) == id <= Len(adapter.cmds)

\* the worker has called the tree for id and has called resp.send
ExecutedAndReplied(id) ==
    /\ Accepted(id)
    /\ id \in Executed
    /\ adapter.reply[id] \in {"sent", "discarded", "received"}

\* no command is handled twice, and a worker that returned from its loop
\* has handled every command that was accepted
HandledOnce ==
    /\ \A i, j \in 1..Len(adapter.executed) :
          i # j => adapter.executed[i] # adapter.executed[j]
    /\ (~adapter.alive /\ ~adapter.panicked)
          => \A id \in 1..Len(adapter.cmds) : ExecutedAndReplied(id)

====
